---- MODULE Spec2Model ----
(***************************************************************************)
(* A model of the RAG service: the orchestrator's concurrency gate, its    *)
(* per-session conversation memory and its request cycle, and the          *)
(* retrieval endpoint with its tenant filters; the post-processing of     *)
(* search results, the chunk ids, the information provider's tool batch,  *)
(* the ingestion of a document and the chunking of its text.              *)
(*                                                                         *)
(* The specifications share the variables and the operators:              *)
(*   Spec        the full runOrchestrator cycle of a few requests, with    *)
(*               the session memories and clearSessionMemory;              *)
(*   SpecGate    more requests than the gate has slots, the cycle's body   *)
(*               reduced to what the gate sees of it (it ends, and the     *)
(*               finally block runs);                                      *)
(*   SpecSession one exchange after the other saved to the session        *)
(*               memories, as by cycles that do not overlap;               *)
(*   SpecRetr    POST /retrieve and retrieveRelevantChunks over a small    *)
(*               index;                                                   *)
(*   SpecRank    deduplicateChunks and rerankChunks on small result lists; *)
(*   SpecIds     the chunk ids of two chunks;                              *)
(*   SpecInfo    queryInfoProvider, one tool of the batch at a time;       *)
(*   SpecDoc     one ingestion run, each of its steps able to fail;        *)
(*   SpecChunk   chunkText on short texts;                                 *)
(*   SpecEmbed   the start of the server and concurrent generateEmbedding  *)
(*               calls, with the lazily loaded embedding pipeline.         *)
(* SpecGateFair is SpecGate in which every cycle that can take a step     *)
(* eventually takes it.                                                    *)
(***************************************************************************)
EXTENDS Integers, Sequences, FiniteSets, TLC

\* ------------------------------------------------------------------ bounds

\* Requests of Spec (each a runOrchestrator call).
NReq == 2
\* Requests of SpecGate: two more than the gate has slots.
NGate == 7
\* clearSessionMemory calls explored.
MaxClears == 1
\* Exchanges saved one after the other in SpecSession.
MaxAppends == 7

\* generateEmbedding calls made by requests in SpecEmbed.
NEmbed == 3

\* --------------------------------------------------------------- constants

MAX_CONCURRENT_REQUESTS == 5
\* BufferWindowMemory({ k: 6, returnMessages: true }).
MemoryWindowK == 6

Max(a, b) == IF a >= b THEN a ELSE b
Min(a, b) == IF a <= b THEN a ELSE b

Requests == 1..NReq
GateRequests == 1..NGate
AllRequests == 1..Max(NReq, NGate)

\* ---------------------------------------------------------------- strings
\* A message is the sequence of its characters, so that trim(), the /i flag
\* and the anchored prefix test of the classifier are computed, not assumed.

WhiteSpace == {" ", "\t", "\n"}

RECURSIVE TrimStart(_)
TrimStart(s) ==
    IF s # <<>> /\ Head(s) \in WhiteSpace THEN TrimStart(Tail(s)) ELSE s

RECURSIVE TrimEnd(_)
TrimEnd(s) ==
    IF s # <<>> /\ s[Len(s)] \in WhiteSpace
    THEN TrimEnd(SubSeq(s, 1, Len(s) - 1))
    ELSE s

\* String.prototype.trim
Trim(s) == TrimEnd(TrimStart(s))

\* Case folding of the i flag, on the letters the messages use.
LowerChar(c) ==
    CASE c = "H" -> "h"
      [] c = "I" -> "i"
      [] c = "E" -> "e"
      [] c = "L" -> "l"
      [] c = "O" -> "o"
      [] OTHER -> c

ToLower(s) == [i \in 1..Len(s) |-> LowerChar(s[i])]

StartsWith(s, p) == Len(p) <= Len(s) /\ SubSeq(s, 1, Len(p)) = p

\* The alternatives of the regular expression of the classifier,
\* /^(hi|hello|hey|xin chao|chao|cam on|thank|bye|goodbye|tam biet|help|what is|gi la)/i
\* (the Vietnamese letters with diacritics are single characters, written
\* here by name).
BasicPrefixes ==
    { <<"h","i">>,
      <<"h","e","l","l","o">>,
      <<"h","e","y">>,
      <<"x","i","n"," ","c","h","a_grave","o">>,
      <<"c","h","a_grave","o">>,
      <<"c","a_hook","m"," ","o_horn","n">>,
      <<"t","h","a","n","k">>,
      <<"b","y","e">>,
      <<"g","o","o","d","b","y","e">>,
      <<"t","a_dot","m"," ","b","i","e_circ_dot","t">>,
      <<"h","e","l","p">>,
      <<"w","h","a","t"," ","i","s">>,
      <<"g","i_grave"," ","l","a_grave">> }

\* isBasicQuery = /^(...)/i.test(userMessage.trim())
isBasicQuery_caseSensitive(userMessage) ==
    \E p \in BasicPrefixes : StartsWith(Trim(userMessage), p)

isBasicQuery(userMessage) ==
    \E p \in BasicPrefixes : StartsWith(ToLower(Trim(userMessage)), p)

\* The user messages the requests draw from.
MsgHello == <<" ","H","e","l","l","o">>
MsgPrice == <<"p","r","i","c","e","?">>
MsgBlank == <<" ">>

UserMessages == {MsgHello, MsgPrice, MsgBlank}

\* The session ids the requests draw from; the blank one fails validation.
SessionBlank == <<" ", " ">>
SessionIds == {<<"s","1">>, <<"s","2">>}
SessionInputs == SessionIds \cup {SessionBlank}

\* A text is the sequence of the pieces it is concatenated from.
ErrInvalidMessage == <<"Invalid or empty user message">>
ErrInvalidSession == <<"Invalid or empty session ID">>

\* What model.invoke can reject with.
LlmErrors == { <<"Request timeout">>, <<"fetch failed">> }

ErrInfoTimeout == <<"Info provider timeout after 30 seconds">>
ErrAgent == <<"agent executor failed">>

\* String.prototype.includes, on the pieces the model's texts are made of.
PieceIncludes(piece, word) ==
    CASE word = "timeout" ->
            piece \in {"Request timeout", "Info provider timeout after 30 seconds"}
      [] word = "API key" -> piece = "API key not valid"
      [] word = "rate limit" -> piece = "rate limit exceeded"
      [] word = "quota" -> piece = "quota exceeded"
      [] OTHER -> FALSE

Includes(text, word) == \E i \in 1..Len(text) : PieceIncludes(text[i], word)

\* The localized errors runOrchestrator throws.
ErrTookTooLong == <<"Yeu cau mat qua nhieu thoi gian. Vui long thu lai.">>
ErrConfiguration == <<"Loi cau hinh he thong. Vui long lien he quan tri vien.">>
ErrOverloaded == <<"He thong dang qua tai. Vui long thu lai sau it phut.">>

\* The catch block of runOrchestrator: the error it rethrows for errorMessage.
MapError(errorMessage) ==
    IF Includes(errorMessage, "timeout") THEN ErrTookTooLong
    ELSE IF Includes(errorMessage, "API key") THEN ErrConfiguration
    ELSE IF Includes(errorMessage, "rate limit") \/ Includes(errorMessage, "quota")
         THEN ErrOverloaded
    ELSE <<"Loi xu ly: ">> \o errorMessage

\* ------------------------------------------------- information provider
\* What Promise.race([executor.invoke(...), timeout]) settles with:
\*   string   result.output is a text; steps tool calls were made by the agent
\*   array    result.output is a list of unexecuted tool-call descriptors; each
\*            is "ok" or "fail" (the tool is found and invoked, and resolves or
\*            throws), "unknown" (no tool of that name) or "nocall" (the
\*            descriptor has no functionCall); synth is the outcome of the
\*            answer-synthesis call
\*   other    result.output is neither
\*   timeout  the 30 s timer rejected first
\*   throw    the executor rejected
CallStatuses == {"ok", "fail", "unknown", "nocall"}

ToolBatches ==
    { <<a>> : a \in CallStatuses } \cup
    { <<a, b>> : a \in CallStatuses, b \in CallStatuses }

ExecOutcome(kind, steps, calls, synth) ==
    [kind |-> kind, steps |-> steps, calls |-> calls, synth |-> synth]

ExecOutcomes ==
    { ExecOutcome("string", n, <<>>, "none") : n \in 0..1 } \cup
    { ExecOutcome("array", 0, b, y) : b \in ToolBatches, y \in {"ok", "throw"} } \cup
    { ExecOutcome(x, 0, <<>>, "none") : x \in {"other", "timeout", "throw"} }

\* The descriptors of a batch whose tool is invoked, and those that succeed.
Invoked(calls) == { i \in 1..Len(calls) : calls[i] \in {"ok", "fail"} }
Successful(calls) == { i \in 1..Len(calls) : calls[i] = "ok" }

\* The outcomes the calls of Spec draw from: one of each way
\* queryInfoProvider ends.
CycleOutcomes ==
    { ExecOutcome("string", 0, <<>>, "none"),
      ExecOutcome("string", 1, <<>>, "none"),
      ExecOutcome("array", 0, <<"ok", "fail">>, "ok"),
      ExecOutcome("array", 0, <<"fail">>, "ok"),
      ExecOutcome("timeout", 0, <<>>, "none"),
      ExecOutcome("throw", 0, <<>>, "none") }

\* Tool invocations of the registry during one queryInfoProvider call.
ToolInvocations(o) ==
    IF o.kind = "string" THEN o.steps
    ELSE IF o.kind = "array" THEN Cardinality(Invoked(o.calls))
    ELSE 0

InfoResult(answer, success) == [answer |-> answer, success |-> success]

InfoCaught(message) == InfoResult(<<"Loi khi lay thong tin: ">> \o message, FALSE)

\* queryInfoProvider: the result it resolves with; it never rejects.
queryInfoProvider(o) ==
    CASE o.kind = "string" -> InfoResult(<<"agentOutput">>, TRUE)
      [] o.kind = "array" ->
            IF Successful(o.calls) # {}
            THEN IF o.synth = "ok"
                 THEN InfoResult(<<"llmResponse">>, TRUE)
                 ELSE InfoCaught(<<"fetch failed">>)
            ELSE InfoResult(<<"Khong the lay thong tin luc nay.">>, FALSE)
      [] o.kind = "other" -> InfoResult(<<"Khong co thong tin.">>, FALSE)
      [] o.kind = "timeout" -> InfoCaught(ErrInfoTimeout)
      [] OTHER -> InfoCaught(ErrAgent)

\* ---------------------------------------------------------- session memory

Message(type, content) == [type |-> type, content |-> content]

\* BufferWindowMemory.saveContext: the input and the output are appended to
\* the chat history of the memory as a human and an AI message.
saveContext(history, input, output) ==
    history \o << Message("human", input), Message("ai", output) >>

\* Array.prototype.slice(-n)
SliceLast(seq, n) ==
    IF Len(seq) <= n THEN seq ELSE SubSeq(seq, Len(seq) - n + 1, Len(seq))

\* BufferWindowMemory.loadMemoryVariables with returnMessages: the last
\* k * 2 messages of the chat history.
loadMemoryVariables_kMessages(history) == SliceLast(history, MemoryWindowK)

loadMemoryVariables(history) == SliceLast(history, MemoryWindowK * 2)

\* ------------------------------------------------------------------ state

VARIABLES
    pc,               \* where each runOrchestrator call stands
    activeRequests,   \* let activeRequests
    requestQueue,     \* const requestQueue, the waiting calls in order
    sessionMemories,  \* the Map: session id -> memory object (0: no entry)
    memories,         \* the BufferWindowMemory objects: their chat histories
    sessionId,        \* the arguments of each call, read after the gate
    userMessage,
    memory,           \* the memory object each call obtained (0: none yet)
    result,           \* what each call settled with
    trace,            \* the phases each call went through
    infoCalled,       \* whether the call invoked queryInfoProvider
    toolCalls,        \* tool invocations made on behalf of the call
    timedOut,         \* whether the delegation deadline of the call expired
    grants,           \* the calls in the order they were given a slot
    releases,         \* how often each call released its slot
    clears,           \* clearSessionMemory calls so far
    exchanges,        \* per memory object, the exchanges saved to it, in order
    appends,          \* exchanges saved in SpecSession so far
    clearedInFlight,  \* the calls whose session was cleared while they held its memory
    rpc,              \* where the retrieval request stands
    body,             \* req.body of POST /retrieve
    options,          \* the options retrieveRelevantChunks was called with
    searchBody,       \* the search body posted to the search engine
    esResults,        \* const esResults, what retrieveFromElasticsearch returned
    response,         \* the response of the route
    rankStage,        \* which post-processing function was applied last
    rankIn,           \* the result list given to the function
    rankQuery,        \* the query given to rerankChunks
    rankOut,          \* the list the function returned
    rankAgain,        \* the list returned for rankOut
    idStage,          \* how many chunk records were pushed
    idFirst,          \* a chunk record
    idSecond,         \* another chunk record
    ipc,              \* where the queryInfoProvider call stands
    ibatch,           \* the tool-call descriptors the executor returned
    itool,            \* per descriptor, how its invocation stands
    isynth,           \* the results the synthesis prompt was made of
    illm,             \* answer-synthesis calls made to the model
    iresult,          \* what queryInfoProvider resolved with
    dpc,              \* where the ingestion run stands
    dpipeline,        \* the route the run was started by
    dstatus,          \* the status of the document
    dlog,             \* the statuses the document was given, in order
    dleft,            \* chunks still to embed
    dindexed,         \* whether the chunks are in the search index
    dfailed,          \* the step of the run that failed
    dresponse,        \* the status code the route answered with (0: none yet)
    ckStage,          \* where the chunking of a text stands
    ckText,           \* the text given to chunkText
    ckBudget,         \* the chunk size given to chunkText, in tokens
    ckChunks,         \* the chunks chunkText returned
    ckRanges,         \* matchedRanges at the end of detectSemanticSections
    server,           \* whether the server is starting or listening
    embeddingPipeline, \* let embeddingPipeline (0: null, else the instance)
    epc,              \* where each initializeEmbeddingModel call stands
    emodel,           \* per call, the instance it builds or was given (0: none)
    eloads,           \* pipeline(...) calls made so far
    efailures         \* pipeline(...) calls that threw

gateVars == <<activeRequests, requestQueue, grants, releases>>
memVars == <<sessionMemories, memories, exchanges>>
argVars == <<sessionId, userMessage>>
pathVars == <<infoCalled, toolCalls, timedOut>>
orchVars ==
    <<pc, gateVars, memVars, argVars, memory, result, trace, pathVars, clears, clearedInFlight,
      appends>>

retrVars == <<rpc, body, options, searchBody, esResults, response>>

rankVars == <<rankStage, rankIn, rankQuery, rankOut, rankAgain>>

idVars == <<idStage, idFirst, idSecond>>

\* The state outside the orchestrator and the retrieval route.
infoVars == <<ipc, ibatch, itool, isynth, illm, iresult>>

docVars == <<dpc, dpipeline, dstatus, dlog, dleft, dindexed, dfailed, dresponse>>

chunkVars == <<ckStage, ckText, ckBudget, ckChunks, ckRanges>>

embedVars == <<server, embeddingPipeline, epc, emodel, eloads, efailures>>

libVars == <<rankVars, idVars, infoVars, docVars, chunkVars, embedVars>>

\* What the actions of one part leave unchanged of the other parts.
exceptRank ==
    <<orchVars, retrVars, idVars, infoVars, docVars, chunkVars, embedVars>>
exceptIds ==
    <<orchVars, retrVars, rankVars, infoVars, docVars, chunkVars, embedVars>>
exceptInfo ==
    <<orchVars, retrVars, rankVars, idVars, docVars, chunkVars, embedVars>>
exceptDoc ==
    <<orchVars, retrVars, rankVars, idVars, infoVars, chunkVars, embedVars>>
exceptChunk ==
    <<orchVars, retrVars, rankVars, idVars, infoVars, docVars, embedVars>>
exceptEmbed ==
    <<orchVars, retrVars, rankVars, idVars, infoVars, docVars, chunkVars>>

vars == <<orchVars, retrVars, libVars>>

NoResult == [kind |-> "none", text |-> <<>>]
Response(text) == [kind |-> "response", text |-> text]
Failure(text) == [kind |-> "error", text |-> text]

InitOrch ==
    /\ pc = [r \in AllRequests |-> "idle"]
    /\ activeRequests = 0
    /\ requestQueue = <<>>
    /\ sessionMemories = [s \in SessionIds |-> 0]
    /\ memories = <<>>
    /\ sessionId = [r \in AllRequests |-> <<>>]
    /\ userMessage = [r \in AllRequests |-> <<>>]
    /\ memory = [r \in AllRequests |-> 0]
    /\ result = [r \in AllRequests |-> NoResult]
    /\ trace = [r \in AllRequests |-> <<"Idle">>]
    /\ infoCalled = [r \in AllRequests |-> FALSE]
    /\ toolCalls = [r \in AllRequests |-> 0]
    /\ timedOut = [r \in AllRequests |-> FALSE]
    /\ grants = <<>>
    /\ releases = [r \in AllRequests |-> 0]
    /\ clears = 0
    /\ exchanges = <<>>
    /\ appends = 0
    /\ clearedInFlight = {}

\* -------------------------------------------------------------- the gate

\* acquireRequestSlot, called by r: a free slot is taken at once, otherwise
\* the resolver of r is pushed on the queue.
acquireRequestSlot_offByOne(r) ==
    IF activeRequests <= MAX_CONCURRENT_REQUESTS
    THEN /\ activeRequests' = activeRequests + 1
         /\ pc' = [pc EXCEPT ![r] = "admitted"]
         /\ grants' = Append(grants, r)
         /\ UNCHANGED <<requestQueue, releases>>
    ELSE /\ requestQueue' = Append(requestQueue, r)
         /\ pc' = [pc EXCEPT ![r] = "waiting"]
         /\ UNCHANGED <<activeRequests, grants, releases>>

acquireRequestSlot(r) ==
    IF activeRequests < MAX_CONCURRENT_REQUESTS
    THEN /\ activeRequests' = activeRequests + 1
         /\ pc' = [pc EXCEPT ![r] = "admitted"]
         /\ grants' = Append(grants, r)
         /\ UNCHANGED <<requestQueue, releases>>
    ELSE /\ requestQueue' = Append(requestQueue, r)
         /\ pc' = [pc EXCEPT ![r] = "waiting"]
         /\ UNCHANGED <<activeRequests, grants, releases>>

\* The finally block of r: releaseRequestSlot gives the slot back and, when
\* a call waits, takes it again for the head of the queue and resolves it;
\* the call of r is over.
releaseRequestSlot_lifo(r) ==
    LET decremented == activeRequests - 1
        n == Len(requestQueue)
    IN  /\ releases' = [releases EXCEPT ![r] = @ + 1]
        /\ IF n > 0
           THEN /\ requestQueue' = SubSeq(requestQueue, 1, n - 1)
                /\ activeRequests' = decremented + 1
                /\ grants' = Append(grants, requestQueue[n])
                /\ pc' = [pc EXCEPT ![r] = "done", ![requestQueue[n]] = "admitted"]
           ELSE /\ activeRequests' = decremented
                /\ pc' = [pc EXCEPT ![r] = "done"]
                /\ UNCHANGED <<requestQueue, grants>>

releaseRequestSlot_slotNotRetaken(r) ==
    LET decremented == activeRequests - 1
    IN  /\ releases' = [releases EXCEPT ![r] = @ + 1]
        /\ activeRequests' = decremented
        /\ IF requestQueue # <<>>
           THEN /\ requestQueue' = Tail(requestQueue)
                /\ grants' = Append(grants, Head(requestQueue))
                /\ pc' = [pc EXCEPT ![r] = "done", ![Head(requestQueue)] = "admitted"]
           ELSE /\ pc' = [pc EXCEPT ![r] = "done"]
                /\ UNCHANGED <<requestQueue, grants>>

releaseRequestSlot_forgetsWaiter(r) ==
    /\ releases' = [releases EXCEPT ![r] = @ + 1]
    /\ activeRequests' = activeRequests - 1
    /\ pc' = [pc EXCEPT ![r] = "done"]
    /\ UNCHANGED <<requestQueue, grants>>

releaseRequestSlot(r) ==
    LET decremented == activeRequests - 1
    IN  /\ releases' = [releases EXCEPT ![r] = @ + 1]
        /\ IF requestQueue # <<>>
           THEN /\ requestQueue' = Tail(requestQueue)
                /\ activeRequests' = decremented + 1
                /\ grants' = Append(grants, Head(requestQueue))
                /\ pc' = [pc EXCEPT ![r] = "done", ![Head(requestQueue)] = "admitted"]
           ELSE /\ activeRequests' = decremented
                /\ pc' = [pc EXCEPT ![r] = "done"]
                /\ UNCHANGED <<requestQueue, grants>>

\* Calls are numbered in the order they are made.
Arrives(r) == pc[r] = "idle" /\ (IF r = 1 THEN TRUE ELSE pc[r - 1] # "idle")

\* runOrchestrator is called: await acquireRequestSlot().
Arrive(r) ==
    /\ Arrives(r)
    /\ acquireRequestSlot(r)
    /\ UNCHANGED <<memVars, argVars, memory, result, trace, pathVars, clears, clearedInFlight, appends, retrVars, libVars>>

\* ------------------------------------------------------ the request cycle

Exchange(input, output) == [input |-> input, output |-> output]

\* The call is over: its arguments and locals are gone.
Return(r) ==
    /\ sessionId' = [sessionId EXCEPT ![r] = <<>>]
    /\ userMessage' = [userMessage EXCEPT ![r] = <<>>]
    /\ memory' = [memory EXCEPT ![r] = 0]

\* The catch and finally blocks: the error is mapped and rethrown, the slot
\* released.
Throw_noFinally(r, errorMessage) ==
    /\ result' = [result EXCEPT ![r] = Failure(MapError(errorMessage))]
    /\ trace' = [trace EXCEPT ![r] = Append(@, "Idle")]
    /\ pc' = [pc EXCEPT ![r] = "done"]
    /\ UNCHANGED gateVars
    /\ Return(r)

Throw(r, errorMessage) ==
    /\ result' = [result EXCEPT ![r] = Failure(MapError(errorMessage))]
    /\ trace' = [trace EXCEPT ![r] = Append(@, "Idle")]
    /\ releaseRequestSlot(r)
    /\ Return(r)

\* memory.saveContext, return, and the finally block.
Respond_noSave(r, responseText, phases) ==
    /\ UNCHANGED <<memories, exchanges>>
    /\ result' = [result EXCEPT ![r] = Response(responseText)]
    /\ trace' = [trace EXCEPT ![r] = @ \o phases]
    /\ releaseRequestSlot(r)
    /\ Return(r)

Respond(r, responseText, phases) ==
    /\ memories' = [memories EXCEPT ![memory[r]] =
                        saveContext(@, userMessage[r], responseText)]
    /\ exchanges' = [exchanges EXCEPT ![memory[r]] =
                        Append(@, Exchange(userMessage[r], responseText))]
    /\ result' = [result EXCEPT ![r] = Response(responseText)]
    /\ trace' = [trace EXCEPT ![r] = @ \o phases]
    /\ releaseRequestSlot(r)
    /\ Return(r)

\* getSessionMemory: the memory object of session s, created when the Map
\* has no entry for s.
MemoryOf(s) ==
    IF sessionMemories[s] = 0 THEN Len(memories) + 1 ELSE sessionMemories[s]

getSessionMemory(r, s) ==
    /\ memory' = [memory EXCEPT ![r] = MemoryOf(s)]
    /\ IF sessionMemories[s] = 0
       THEN /\ memories' = Append(memories, <<>>)
            /\ exchanges' = Append(exchanges, <<>>)
            /\ sessionMemories' = [sessionMemories EXCEPT ![s] = Len(memories) + 1]
       ELSE UNCHANGED memVars

Invalid(text) == Trim(text) = <<>>

\* The call resumes with its slot and fails validation.
StartInvalid(r) ==
    /\ pc[r] = "admitted"
    /\ \E s \in SessionInputs, m \in UserMessages :
        /\ Invalid(m) \/ Invalid(s)
        /\ Throw(r, IF Invalid(m) THEN ErrInvalidMessage ELSE ErrInvalidSession)
    /\ UNCHANGED <<memVars, pathVars, clears, clearedInFlight, appends, retrVars, libVars>>

\* The call resumes with its slot, obtains the memory of its session,
\* classifies the message as basic and invokes the model.
StartDirect(r) ==
    /\ pc[r] = "admitted"
    /\ \E s \in SessionInputs, m \in UserMessages :
        /\ ~Invalid(m) /\ ~Invalid(s)
        /\ isBasicQuery(m)
        /\ sessionId' = [sessionId EXCEPT ![r] = s]
        /\ userMessage' = [userMessage EXCEPT ![r] = m]
        /\ getSessionMemory(r, s)
    /\ pc' = [pc EXCEPT ![r] = "direct"]
    /\ trace' = [trace EXCEPT ![r] = @ \o <<"Classifying", "DirectAnswer">>]
    /\ UNCHANGED <<gateVars, result, pathVars, clears, clearedInFlight, appends, retrVars, libVars>>

\* The same, for a message that is not basic: queryInfoProvider is called.
StartDelegate(r) ==
    /\ pc[r] = "admitted"
    /\ \E s \in SessionInputs, m \in UserMessages :
        /\ ~Invalid(m) /\ ~Invalid(s)
        /\ ~isBasicQuery(m)
        /\ sessionId' = [sessionId EXCEPT ![r] = s]
        /\ userMessage' = [userMessage EXCEPT ![r] = m]
        /\ getSessionMemory(r, s)
    /\ pc' = [pc EXCEPT ![r] = "delegating"]
    /\ trace' = [trace EXCEPT ![r] = @ \o <<"Classifying", "Delegating">>]
    /\ infoCalled' = [infoCalled EXCEPT ![r] = TRUE]
    /\ UNCHANGED <<gateVars, result, toolCalls, timedOut, clears, clearedInFlight, appends, retrVars, libVars>>

\* model.invoke(directPrompt) resolves: the exchange is saved and returned.
DirectReply(r) ==
    /\ pc[r] = "direct"
    /\ Respond(r, <<"directResponse">>, <<"Responding", "Idle">>)
    /\ UNCHANGED <<sessionMemories, pathVars, clears, clearedInFlight, appends, retrVars, libVars>>

\* model.invoke(directPrompt) rejects.
DirectError(r) ==
    /\ pc[r] = "direct"
    /\ \E e \in LlmErrors : Throw(r, e)
    /\ UNCHANGED <<memVars, pathVars, clears, clearedInFlight, appends, retrVars, libVars>>

\* queryInfoProvider resolves with success: the answer is passed to the model
\* once more.
InfoSuccess(r) ==
    /\ pc[r] = "delegating"
    /\ \E o \in CycleOutcomes :
        /\ queryInfoProvider(o).success
        /\ toolCalls' = [toolCalls EXCEPT ![r] = ToolInvocations(o)]
        /\ timedOut' = [timedOut EXCEPT ![r] = (o.kind = "timeout")]
    /\ pc' = [pc EXCEPT ![r] = "wrapping"]
    /\ trace' = [trace EXCEPT ![r] = Append(@, "Responding")]
    /\ UNCHANGED <<gateVars, memVars, argVars, memory, result, infoCalled, clears, clearedInFlight, appends, retrVars, libVars>>

InfoFailure_fallsBackToDirect(r) ==
    /\ pc[r] = "delegating"
    /\ \E o \in CycleOutcomes :
        /\ ~queryInfoProvider(o).success
        /\ toolCalls' = [toolCalls EXCEPT ![r] = ToolInvocations(o)]
        /\ timedOut' = [timedOut EXCEPT ![r] = o.kind = "timeout"]
    /\ pc' = [pc EXCEPT ![r] = "direct"]
    /\ trace' = [trace EXCEPT ![r] = @ \o <<"DirectAnswer">>]
    /\ UNCHANGED <<gateVars, memVars, argVars, memory, result, infoCalled, clears, clearedInFlight,
                   appends, retrVars, libVars>>

\* queryInfoProvider resolves without success: its answer is the response.
InfoFailure(r) ==
    /\ pc[r] = "delegating"
    /\ \E o \in CycleOutcomes :
        /\ ~queryInfoProvider(o).success
        /\ toolCalls' = [toolCalls EXCEPT ![r] = ToolInvocations(o)]
        /\ timedOut' = [timedOut EXCEPT ![r] = (o.kind = "timeout")]
        /\ Respond(r, queryInfoProvider(o).answer, <<"Responding", "Idle">>)
    /\ UNCHANGED <<sessionMemories, infoCalled, clears, clearedInFlight, appends, retrVars, libVars>>

\* model.invoke(contextPrompt) resolves.
WrapReply(r) ==
    /\ pc[r] = "wrapping"
    /\ Respond(r, <<"finalResponse">>, <<"Idle">>)
    /\ UNCHANGED <<sessionMemories, pathVars, clears, clearedInFlight, appends, retrVars, libVars>>

\* model.invoke(contextPrompt) rejects.
WrapError(r) ==
    /\ pc[r] = "wrapping"
    /\ \E e \in LlmErrors : Throw(r, e)
    /\ UNCHANGED <<memVars, pathVars, clears, clearedInFlight, appends, retrVars, libVars>>

\* clearSessionMemory(s): the entry of s is deleted from the Map.
\* The calls that hold the memory object of session s.
InFlightWith(s) == { r \in AllRequests : memory[r] # 0 /\ memory[r] = sessionMemories[s] }

clearSessionMemory_emptiesInPlace(s) ==
    /\ clears < MaxClears
    /\ clears' = clears + 1
    /\ clearedInFlight' = clearedInFlight \cup InFlightWith(s)
    /\ memories' = [o \in 1..Len(memories) |->
                        IF o = sessionMemories[s] THEN <<>> ELSE memories[o]]
    /\ exchanges' = [o \in 1..Len(exchanges) |->
                        IF o = sessionMemories[s] THEN <<>> ELSE exchanges[o]]
    /\ UNCHANGED <<pc, gateVars, sessionMemories, argVars, memory, result,
                   trace, pathVars, appends, retrVars, libVars>>

clearSessionMemory(s) ==
    /\ clears < MaxClears
    /\ clears' = clears + 1
    /\ clearedInFlight' = clearedInFlight \cup InFlightWith(s)
    /\ sessionMemories' = [sessionMemories EXCEPT ![s] = 0]
    /\ UNCHANGED <<pc, gateVars, memories, exchanges, argVars, memory, result,
                   trace, pathVars, appends, retrVars, libVars>>

\* getSessionHistory(s)
getSessionHistory(s) ==
    IF sessionMemories[s] = 0
    THEN <<>>
    ELSE loadMemoryVariables(memories[sessionMemories[s]])

\* The response of a cycle that ends well, by the path the message takes.
ResponseTo(m) == IF isBasicQuery(m) THEN <<"directResponse">> ELSE <<"finalResponse">>

\* What a cycle for session s that ends with a response, and that no other
\* call overlaps, does to the session memories: getSessionMemory(s), then
\* memory.saveContext({input: m}, {output: responseText}).
SessionCycle(s, m) ==
    LET o == MemoryOf(s)
        created == sessionMemories[s] = 0
        before == IF created THEN Append(memories, <<>>) ELSE memories
        logged == IF created THEN Append(exchanges, <<>>) ELSE exchanges
    IN  /\ appends < MaxAppends
        /\ ~Invalid(m)
        /\ appends' = appends + 1
        /\ sessionMemories' = [sessionMemories EXCEPT ![s] = o]
        /\ memories' = [before EXCEPT ![o] = saveContext(@, m, ResponseTo(m))]
        /\ exchanges' = [logged EXCEPT ![o] = Append(@, Exchange(m, ResponseTo(m)))]
        /\ UNCHANGED <<pc, gateVars, argVars, memory, result, trace, pathVars, clears, clearedInFlight,
                     retrVars, libVars>>

\* The cycle as the gate sees it: the call holds its slot until its finally
\* block runs.
GateCycle(r) ==
    /\ pc[r] = "admitted"
    /\ releaseRequestSlot(r)
    /\ UNCHANGED <<memVars, argVars, memory, result, trace, pathVars, clears, clearedInFlight, appends, retrVars, libVars>>

\* ------------------------------------------------------------- retrieval
\* POST /retrieve, retrieveRelevantChunks and the three searches of the
\* search client.  A value the JavaScript code tests for truthiness is
\* modelled with its falsy value standing for "absent": "" for strings,
\* 0 for numbers, <<>> for the query.  Scores are in tenths (0.7 is 7).

DefaultTopK == 5
DefaultMinScore == 7

\* A query is the sequence of its whitespace-separated words.
Queries == { <<>>, <<"Deposit", "due">> }
TopKInputs == {0, 2}
SearchTypeInputs == {"", "text", "vector", "fuzzy"}
RerankInputs == {"", "false"}
OwnerInputs == {"", "42", "7"}
PropertyInputs == {0, 1}
KbScopeInputs == {"", "property", "owner", "global"}

Bodies ==
    [query : Queries, top_k : TopKInputs, search_type : SearchTypeInputs,
     min_score : {0}, rerank : RerankInputs, owner_id : OwnerInputs,
     property_id : PropertyInputs, kb_scope : KbScopeInputs]

NoBody ==
    [query |-> <<>>, top_k |-> 0, search_type |-> "", min_score |-> 0,
     rerank |-> "", owner_id |-> "", property_id |-> 0, kb_scope |-> ""]

NoOptions ==
    [topK |-> 0, searchType |-> "", minScore |-> 0, rerank |-> FALSE,
     ownerId |-> "", propertyId |-> 0, kbScope |-> ""]

\* The chunks indexed in the search engine, by _id.
IndexDocs ==
    << [chunk_id |-> 1, owner_id |-> "42", property_id |-> 1, title |-> "Lease",
        chunk_text |-> <<"Deposits", "are", "due">>],
       [chunk_id |-> 2, owner_id |-> "42", property_id |-> 2, title |-> "",
        chunk_text |-> <<"rent", "due">>],
       [chunk_id |-> 3, owner_id |-> "7", property_id |-> 3, title |-> "Rules",
        chunk_text |-> <<"deposit", "rules">>],
       [chunk_id |-> 4, owner_id |-> "", property_id |-> 0, title |-> "Guide",
        chunk_text |-> <<"general", "rules">>] >>

DocIds == 1..Len(IndexDocs)
KeywordScores == [DocIds -> {0, 4}]
Similarities == [DocIds -> {6, 9}]

\* Array.prototype.sort with a descending comparator on Key; the sort is stable.
\* keys[i] is the key of seq[i].
SortDesc(seq, keys) ==
    LET n == Len(seq)
        before(j, i) == \/ keys[j] > keys[i]
                        \/ keys[j] = keys[i] /\ j < i
        pos(i) == 1 + Cardinality({ j \in 1..n : before(j, i) })
    IN  [p \in 1..n |-> seq[CHOOSE i \in 1..n : pos(i) = p]]

Slice(seq, n) == SubSeq(seq, 1, Min(n, Len(seq)))

\* Math.ceil(topK * 1.5)
CeilTimesOneAndHalf(topK) == (3 * topK + 1) \div 2

\* The term filters of a search: a term is pushed for a truthy value only, and
\* an empty list becomes undefined.
NoFilter == [owner_id |-> "", property_id |-> 0]

TermFilter(filters) ==
    [owner_id |-> IF filters.owner_id # "" THEN filters.owner_id ELSE "",
     property_id |-> IF filters.property_id # 0 THEN filters.property_id ELSE 0]

NoSearch ==
    [kind |-> "none", occur |-> "none", queryFilter |-> NoFilter, knn |-> FALSE,
     knnFilter |-> NoFilter, k |-> 0, size |-> 0, min_score |-> 0]

textSearch(size, filters) ==
    [kind |-> "text", occur |-> "must", queryFilter |-> TermFilter(filters),
     knn |-> FALSE, knnFilter |-> NoFilter, k |-> 0, size |-> size, min_score |-> 0]

\* The body carries no size: the engine returns its default of 10 hits.
vectorSearch(size, minScore, filters) ==
    [kind |-> "vector", occur |-> "none", queryFilter |-> NoFilter,
     knn |-> TRUE, knnFilter |-> TermFilter(filters), k |-> size, size |-> 10,
     min_score |-> minScore]

hybridSearch_knnUnfiltered(size, filters) ==
    [kind |-> "hybrid", occur |-> "should", queryFilter |-> TermFilter(filters),
     knn |-> TRUE, knnFilter |-> NoFilter, k |-> size, size |-> size,
     min_score |-> 0]

hybridSearch(size, filters) ==
    [kind |-> "hybrid", occur |-> "should", queryFilter |-> TermFilter(filters),
     knn |-> TRUE, knnFilter |-> TermFilter(filters), k |-> size, size |-> size,
     min_score |-> 0]

SearchTypes == {"text", "vector", "hybrid"}

\* The switch of retrieveFromElasticsearch; the default case throws.
BuildSearch(opts) ==
    LET filters == [owner_id |-> opts.ownerId, property_id |-> opts.propertyId]
    IN  CASE opts.searchType = "text" -> textSearch(opts.topK, filters)
          [] opts.searchType = "vector" ->
                vectorSearch(opts.topK, opts.minScore, filters)
          [] opts.searchType = "hybrid" -> hybridSearch(opts.topK, filters)
          [] OTHER -> NoSearch

\* The search engine: a document is a hit of the bool query when it passes the
\* query's term filters and matches the keywords (a lone should clause must
\* match; beside a filter it only adds to the score), and a hit of the knn
\* clause when it is among the k nearest documents that pass the knn filter.
\* The score of a hit is the sum over the clauses it is a hit of; hits under
\* min_score are dropped, the rest come best first, at most size of them.
Passes(doc, filter) ==
    /\ filter.owner_id # "" => doc.owner_id = filter.owner_id
    /\ filter.property_id # 0 => doc.property_id = filter.property_id

EngineHits(sb, kw, sim) ==
    LET ids == [i \in DocIds |-> i]
        InKnnFilter(i) == Passes(IndexDocs[i], sb.knnFilter)
        candidates == SelectSeq(ids, InKnnFilter)
        nearest == Slice(SortDesc(candidates,
                                  [p \in 1..Len(candidates) |-> sim[candidates[p]]]),
                         sb.k)
        KnnHit(i) == sb.knn /\ \E p \in 1..Len(nearest) : nearest[p] = i
        QueryHit(i) ==
            /\ sb.occur # "none"
            /\ Passes(IndexDocs[i], sb.queryFilter)
            /\ \/ kw[i] > 0
               \/ sb.occur = "should" /\ sb.queryFilter # NoFilter
        Score(i) == (IF QueryHit(i) THEN kw[i] ELSE 0)
                    + (IF KnnHit(i) THEN sim[i] ELSE 0)
        IsHit(i) == (QueryHit(i) \/ KnnHit(i)) /\ Score(i) >= sb.min_score
        hits == SelectSeq(ids, IsHit)
        ranked == Slice(SortDesc(hits, [p \in 1..Len(hits) |-> Score(hits[p])]),
                        sb.size)
    IN  [p \in 1..Len(ranked) |->
            [chunk_id |-> IndexDocs[ranked[p]].chunk_id,
             owner_id |-> IndexDocs[ranked[p]].owner_id,
             property_id |-> IndexDocs[ranked[p]].property_id,
             title |-> IndexDocs[ranked[p]].title,
             chunk_text |-> IndexDocs[ranked[p]].chunk_text,
             score |-> Score(ranked[p]),
             similarity_score |-> 0,
             rerank_score |-> -1]]

\* results.map of retrieveFromElasticsearch: title || "Untitled".
WithTitle(results) ==
    [p \in 1..Len(results) |->
        [results[p] EXCEPT !.title = IF @ = "" THEN "Untitled" ELSE @]]

\* String.prototype.toLowerCase, length and includes on the words used here.
WordLower(w) ==
    CASE w = "Deposit" -> "deposit"
      [] w = "Deposits" -> "deposits"
      [] OTHER -> w

WordLength(w) ==
    CASE w = "due" -> 3
      [] w = "are" -> 3
      [] w = "rent" -> 4
      [] w = "rules" -> 5
      [] w = "deposit" -> 7
      [] w = "general" -> 7
      [] w = "deposits" -> 8
      [] OTHER -> 0

WordIncludes(w, part) == w = part \/ (w = "deposits" /\ part = "deposit")

TextIncludes(text, word) ==
    \E i \in 1..Len(text) : WordIncludes(WordLower(text[i]), word)

KeywordMatches(chunk, query) ==
    Cardinality({ i \in 1..Len(query) :
        /\ WordLength(WordLower(query[i])) > 3
        /\ TextIncludes(chunk.chunk_text, WordLower(query[i])) })

\* a.similarity_score || a.score || 0: a falsy score (0, absent) falls through.
BaseScore(chunk) ==
    IF chunk.similarity_score # 0 THEN chunk.similarity_score
    ELSE IF chunk.score # 0 THEN chunk.score
    ELSE 0

rerankChunks_uncapped(chunks, query) ==
    LET scored == [p \in 1..Len(chunks) |->
            [chunks[p] EXCEPT !.rerank_score =
                BaseScore(chunks[p]) * (10 + KeywordMatches(chunks[p], query))]]
    IN  SortDesc(scored, [p \in 1..Len(scored) |-> scored[p].rerank_score])

\* rerank_score is score * (1 + boost) with boost = min(matches * 0.1, 0.5);
\* it is kept in hundredths: score (tenths) * (10 + min(matches, 5)).
rerankChunks(chunks, query) ==
    LET scored == [p \in 1..Len(chunks) |->
            [chunks[p] EXCEPT !.rerank_score =
                BaseScore(chunks[p]) * (10 + Min(KeywordMatches(chunks[p], query), 5))]]
    IN  SortDesc(scored, [p \in 1..Len(scored) |-> scored[p].rerank_score])

TopChunks_reranksAnyCount(enrichedChunks, query, opts) ==
    IF Len(enrichedChunks) = 0 THEN <<>>
    ELSE IF opts.rerank
         THEN Slice(rerankChunks(enrichedChunks, query), opts.topK)
         ELSE Slice(enrichedChunks, opts.topK)

\* What retrieveRelevantChunks makes of the results of the engine.
TopChunks(enrichedChunks, query, opts) ==
    IF Len(enrichedChunks) = 0 THEN <<>>
    ELSE IF opts.rerank /\ Len(enrichedChunks) > opts.topK
         THEN Slice(rerankChunks(enrichedChunks, query), opts.topK)
         ELSE Slice(enrichedChunks, opts.topK)

\* The options POST /retrieve passes to retrieveRelevantChunks.
RouteOptions(b) ==
    [topK |-> IF b.top_k # 0 THEN b.top_k ELSE DefaultTopK,
     searchType |-> IF b.search_type # "" THEN b.search_type ELSE "hybrid",
     minScore |-> IF b.min_score # 0 THEN b.min_score ELSE DefaultMinScore,
     rerank |-> b.rerank # "false",
     ownerId |-> b.owner_id,
     propertyId |-> b.property_id,
     kbScope |-> IF b.kb_scope # "" THEN b.kb_scope ELSE "property"]

EsOptions_globalUnfiltered(opts) ==
    [opts EXCEPT !.topK = CeilTimesOneAndHalf(opts.topK), !.kbScope = "",
                 !.ownerId = IF opts.kbScope = "global" THEN "" ELSE @]

\* The options retrieveRelevantChunks passes to retrieveFromElasticsearch.
EsOptions(opts) ==
    [opts EXCEPT !.topK = CeilTimesOneAndHalf(opts.topK), !.kbScope = ""]

NoResponse == [status |-> 0, error |-> "", chunks |-> <<>>]
Json(chunks) == [status |-> 200, error |-> "", chunks |-> chunks]
Status(code, error) == [status |-> code, error |-> error, chunks |-> <<>>]

InitRetr ==
    /\ rpc = "idle"
    /\ body = NoBody
    /\ options = NoOptions
    /\ searchBody = NoSearch
    /\ esResults = <<>>
    /\ response = NoResponse

\* The two checks of POST /retrieve, on the body as it was sent.
QueryMissing(b) == b.query = <<>>
OwnerMissing(b) == b.kb_scope \in {"property", "owner"} /\ b.owner_id = ""

Rejected(b) == QueryMissing(b) \/ OwnerMissing(b)

PostRetrieveRejected(b) ==
    /\ rpc = "idle"
    /\ Rejected(b)
    /\ body' = b
    /\ response' = IF QueryMissing(b)
                   THEN Status(400, "Query is required")
                   ELSE Status(400, "owner_id is required for property/owner KB scope")
    /\ rpc' = "done"
    /\ UNCHANGED <<options, searchBody, esResults, orchVars, libVars>>

\* The checks pass: retrieveRelevantChunks is called and awaits the embedding.
PostRetrieve(b) ==
    /\ rpc = "idle"
    /\ ~Rejected(b)
    /\ body' = b
    /\ options' = RouteOptions(b)
    /\ rpc' = "embedding"
    /\ UNCHANGED <<searchBody, esResults, response, orchVars, libVars>>

EmbeddingFails ==
    /\ rpc = "embedding"
    /\ response' = Status(500, "embedding failed")
    /\ rpc' = "done"
    /\ UNCHANGED <<body, options, searchBody, esResults, orchVars, libVars>>

\* The embedding arrives, retrieveFromElasticsearch posts the search.
PostSearch ==
    /\ rpc = "embedding"
    /\ options.searchType \in SearchTypes
    /\ searchBody' = BuildSearch(EsOptions(options))
    /\ rpc' = "searching"
    /\ UNCHANGED <<body, options, esResults, response, orchVars, libVars>>

UnknownSearchType ==
    /\ rpc = "embedding"
    /\ options.searchType \notin SearchTypes
    /\ response' = Status(500, "Unknown search type")
    /\ rpc' = "done"
    /\ UNCHANGED <<body, options, searchBody, esResults, orchVars, libVars>>

EngineFails ==
    /\ rpc = "searching"
    /\ response' = Status(500, "search failed")
    /\ rpc' = "done"
    /\ UNCHANGED <<body, options, searchBody, esResults, orchVars, libVars>>

EngineAnswers(kw, sim) ==
    /\ rpc = "searching"
    /\ esResults' = WithTitle(EngineHits(searchBody, kw, sim))
    /\ response' = Json(TopChunks(esResults', body.query, options))
    /\ rpc' = "done"
    /\ UNCHANGED <<body, options, searchBody, orchVars, libVars>>

\* ------------------------------------------------- result post-processing
\* deduplicateChunks and rerankChunks as functions of a result list.

\* Length of the lists the functions are applied to.
MaxList == 3

\* deduplicateChunks: the first result of each chunk_id is kept, in the order
\* of the list; the kept results are then sorted by score, best first.
deduplicateChunks_keepsAll(chunks) ==
    SortDesc(chunks, [p \in 1..Len(chunks) |-> BaseScore(chunks[p])])

deduplicateChunks(chunks) ==
    LET NotSeen(p) == \A q \in 1..(p - 1) : chunks[q].chunk_id # chunks[p].chunk_id
        kept == SelectSeq([p \in 1..Len(chunks) |-> p], NotSeen)
        unique == [p \in 1..Len(kept) |-> chunks[kept[p]]]
    IN  SortDesc(unique, [p \in 1..Len(unique) |-> BaseScore(unique[p])])

\* The results the functions are given: results of two chunks of the index,
\* with the scores a SearchResult may carry (0: the field is absent or 0).
RankResults ==
    { [chunk_id |-> IndexDocs[d].chunk_id, owner_id |-> IndexDocs[d].owner_id,
       property_id |-> IndexDocs[d].property_id, title |-> IndexDocs[d].title,
       chunk_text |-> IndexDocs[d].chunk_text, score |-> s,
       similarity_score |-> y, rerank_score |-> -1] :
        d \in {1, 2}, s \in {0, 5, 9}, y \in {0, 7} }

RECURSIVE ListsUpTo(_, _)
ListsUpTo(S, n) ==
    IF n = 0 THEN { <<>> }
    ELSE LET shorter == ListsUpTo(S, n - 1)
         IN  shorter \cup { Append(l, x) : l \in { m \in shorter : Len(m) = n - 1 }, x \in S }

RankLists == ListsUpTo(RankResults, MaxList)

RankQueries ==
    { <<"Deposit", "due">>,
      <<"rent", "deposits", "rules">>,
      <<"deposit", "Deposits", "deposit", "deposits", "Deposit", "deposit", "due">> }

InitRank ==
    /\ rankStage = "none"
    /\ rankIn = <<>>
    /\ rankQuery = <<>>
    /\ rankOut = <<>>
    /\ rankAgain = <<>>

\* A caller holds a result list.
RankInput(chunks) ==
    /\ rankStage = "none"
    /\ rankStage' = "input"
    /\ rankIn' = chunks
    /\ UNCHANGED <<rankQuery, rankOut, rankAgain, exceptRank>>

Deduplicate ==
    /\ rankStage = "input"
    /\ rankStage' = "deduplicated"
    /\ rankOut' = deduplicateChunks(rankIn)
    /\ UNCHANGED <<rankIn, rankQuery, rankAgain, exceptRank>>

\* The function is applied to its own result.
DeduplicateAgain ==
    /\ rankStage = "deduplicated"
    /\ rankStage' = "deduplicated twice"
    /\ rankAgain' = deduplicateChunks(rankOut)
    /\ UNCHANGED <<rankIn, rankQuery, rankOut, exceptRank>>

Rerank(query) ==
    /\ rankStage = "input"
    /\ rankStage' = "reranked"
    /\ rankQuery' = query
    /\ rankOut' = rerankChunks(rankIn, query)
    /\ UNCHANGED <<rankIn, rankAgain, exceptRank>>

\* --------------------------------------------------------------- chunk ids
\* The chunk_id processDocument derives from the document id and the index
\* of the chunk: parseInt(`${documentId}${i.toString().padStart(4, "0")}`).

\* The document ids and chunk indexes the ids are derived for.
MaxDocumentId == 12
ChunkIndexes == {0, 1, 2, 9999, 10000, 10001}
DocumentIds == 1..MaxDocumentId

RECURSIVE DecimalDigits(_)
DecimalDigits(n) == IF n < 10 THEN 1 ELSE 1 + DecimalDigits(n \div 10)

RECURSIVE PowerOfTen(_)
PowerOfTen(n) == IF n = 0 THEN 1 ELSE 10 * PowerOfTen(n - 1)

\* The decimal digits of the index, left-padded with zeros to 4 digits, are
\* appended to the digits of the document id and the string is parsed.
chunkId(documentId, i) ==
    documentId * PowerOfTen(Max(4, DecimalDigits(i))) + i

ChunkRecord(documentId, i) ==
    [chunk_id |-> chunkId(documentId, i), document_id |-> documentId,
     chunk_index |-> i]

NoRecord == [chunk_id |-> 0, document_id |-> 0, chunk_index |-> 0]

InitIds ==
    /\ idStage = 0
    /\ idFirst = NoRecord
    /\ idSecond = NoRecord

\* chunkRecords.push for one chunk, and for another one.
PushFirst(documentId, i) ==
    /\ idStage = 0
    /\ idStage' = 1
    /\ idFirst' = ChunkRecord(documentId, i)
    /\ UNCHANGED <<idSecond, exceptIds>>

PushSecond(documentId, i) ==
    /\ idStage = 1
    /\ idStage' = 2
    /\ idSecond' = ChunkRecord(documentId, i)
    /\ UNCHANGED <<idFirst, exceptIds>>

\* ------------------------------------------- information provider, in steps
\* queryInfoProvider step by step: the executor settles, and when its output
\* is a batch of tool-call descriptors the tools are invoked by hand.

\* Descriptors in a batch.
MaxBatch == 3

\* A descriptor names a registered tool, names a tool that is not in the
\* registry, or carries no functionCall.
Descriptors == {"tool", "unknown", "nocall"}

RECURSIVE BatchesUpTo(_)
BatchesUpTo(n) ==
    IF n = 0 THEN { <<>> }
    ELSE LET shorter == BatchesUpTo(n - 1)
         IN  shorter \cup
             { Append(b, d) : b \in { c \in shorter : Len(c) = n - 1 }, d \in Descriptors }

Batches == BatchesUpTo(MaxBatch) \ { <<>> }

\* How an invoked tool settles: its function returns data, its function
\* catches its own error and returns the error as text (the tools do so,
\* as searchKnowledgeBaseTool), or invoke rejects (the arguments do not
\* pass the schema of the tool).
ToolReturns == {"data", "error text"}

NoInfo == [answer |-> <<>>, toolsUsed |-> {}, success |-> FALSE, settled |-> FALSE]

InfoReturn(answer, toolsUsed, success) ==
    [answer |-> answer, toolsUsed |-> toolsUsed, success |-> success, settled |-> TRUE]

\* The catch of queryInfoProvider.
InfoCatch(message) ==
    InfoReturn(<<"Loi khi lay thong tin: ">> \o message, {}, FALSE)

\* toolsUsed.push(name) for every descriptor with a functionCall.
ToolsUsed(batch) == { i \in 1..Len(batch) : batch[i] # "nocall" }

\* { tool, result, success: true } of the settled invocations.
SuccessfulResults(tools) ==
    { i \in DOMAIN tools : tools[i] \in {"data", "error text"} }

Settled(tools) == \A i \in DOMAIN tools : tools[i] # "invoked"

InitInfo ==
    /\ ipc = "idle"
    /\ ibatch = <<>>
    /\ itool = <<>>
    /\ isynth = {}
    /\ illm = 0
    /\ iresult = NoInfo

\* Promise.all has settled: with a successful result the model is asked to
\* phrase the answer from the successful results, otherwise the fixed message
\* is returned.
Collect(batch, tools) ==
    IF SuccessfulResults(tools) # {}
    THEN /\ ipc' = "synthesizing"
         /\ isynth' = SuccessfulResults(tools)
         /\ illm' = illm + 1
         /\ iresult' = iresult
    ELSE /\ ipc' = "done"
         /\ iresult' = InfoReturn(<<"Khong the lay thong tin luc nay.">>,
                                  ToolsUsed(batch), FALSE)
         /\ UNCHANGED <<isynth, illm>>

\* After a tool settled: the others are awaited, or Promise.all settles.
AfterSettle(tools) ==
    IF Settled(tools)
    THEN Collect(ibatch, tools)
    ELSE /\ ipc' = "tools"
         /\ UNCHANGED <<isynth, illm, iresult>>

InvokeExecutor ==
    /\ ipc = "idle"
    /\ ipc' = "executing"
    /\ UNCHANGED <<ibatch, itool, isynth, illm, iresult, exceptInfo>>

\* result.output is a string: the agent ran its tools itself.
ExecutorAnswers ==
    /\ ipc = "executing"
    /\ ipc' = "done"
    /\ iresult' = InfoReturn(<<"agentOutput">>, {}, TRUE)
    /\ UNCHANGED <<ibatch, itool, isynth, illm, exceptInfo>>

\* result.output is an array: every descriptor is mapped, a registered tool
\* is invoked at once, the others give null.
ExecutorReturnsBatch(batch) ==
    /\ ipc = "executing"
    /\ ibatch' = batch
    /\ itool' = [i \in 1..Len(batch) |->
                    IF batch[i] = "tool" THEN "invoked" ELSE "null"]
    /\ IF \E i \in 1..Len(batch) : batch[i] = "tool"
       THEN /\ ipc' = "tools"
            /\ UNCHANGED <<isynth, illm, iresult>>
       ELSE Collect(batch, [i \in 1..Len(batch) |-> "null"])
    /\ UNCHANGED exceptInfo

ExecutorReturnsOther ==
    /\ ipc = "executing"
    /\ ipc' = "done"
    /\ iresult' = InfoReturn(<<"Khong co thong tin.">>, {}, FALSE)
    /\ UNCHANGED <<ibatch, itool, isynth, illm, exceptInfo>>

\* The executor rejects, or the 30 s timer rejects first.
ExecutorFails ==
    /\ ipc = "executing"
    /\ ipc' = "done"
    /\ \E message \in {ErrInfoTimeout, ErrAgent} : iresult' = InfoCatch(message)
    /\ UNCHANGED <<ibatch, itool, isynth, illm, exceptInfo>>

ToolRejects_abortsBatch(i) ==
    /\ ipc = "tools"
    /\ i \in DOMAIN itool
    /\ itool[i] = "invoked"
    /\ itool' = [itool EXCEPT ![i] = "rejected"]
    /\ ipc' = "done"
    /\ iresult' = InfoCatch(<<"tool failed">>)
    /\ UNCHANGED <<ibatch, isynth, illm, exceptInfo>>

\* tool.invoke resolves.
ToolResolves(i) ==
    /\ ipc = "tools"
    /\ i \in DOMAIN itool
    /\ itool[i] = "invoked"
    /\ \E returned \in ToolReturns :
        /\ itool' = [itool EXCEPT ![i] = returned]
        /\ AfterSettle([itool EXCEPT ![i] = returned])
    /\ UNCHANGED <<ibatch, exceptInfo>>

\* tool.invoke rejects: the error is caught for this tool alone.
ToolRejects(i) ==
    /\ ipc = "tools"
    /\ i \in DOMAIN itool
    /\ itool[i] = "invoked"
    /\ itool' = [itool EXCEPT ![i] = "rejected"]
    /\ AfterSettle([itool EXCEPT ![i] = "rejected"])
    /\ UNCHANGED <<ibatch, exceptInfo>>

\* simpleModel.invoke(responsePrompt) resolves.
SynthesisResolves ==
    /\ ipc = "synthesizing"
    /\ ipc' = "done"
    /\ iresult' = InfoReturn(<<"llmResponse">>, ToolsUsed(ibatch), TRUE)
    /\ UNCHANGED <<ibatch, itool, isynth, illm, exceptInfo>>

SynthesisRejects ==
    /\ ipc = "synthesizing"
    /\ ipc' = "done"
    /\ \E e \in LlmErrors : iresult' = InfoCatch(e)
    /\ UNCHANGED <<ibatch, itool, isynth, illm, exceptInfo>>

\* --------------------------------------------------------------- ingestion
\* One ingestion run of one document, by POST /documents/upload or POST
\* /documents/process (the document row and its status are in the database)
\* or by POST /process-url (the status is reported to the service that owns
\* the document).

\* Chunks of the ingested document.
MaxChunks == 3

InitDoc ==
    /\ dpc = "idle"
    /\ dpipeline = "none"
    /\ dstatus = "none"
    /\ dlog = <<>>
    /\ dleft = 0
    /\ dindexed = FALSE
    /\ dfailed = "none"
    /\ dresponse = 0

\* The status of the document is written.
SetStatus(status) ==
    /\ dstatus' = status
    /\ dlog' = Append(dlog, status)

\* The routes that keep the document in the database.
DbRoutes == {"upload", "process"}

\* POST /documents/upload, POST /documents/process: saveDocument writes the
\* file and inserts the document row with status pending.
Upload(route) ==
    /\ dpc = "idle"
    /\ dpipeline' = route
    /\ SetStatus("pending")
    /\ dpc' = "saved"
    /\ UNCHANGED <<dleft, dindexed, dfailed, dresponse, exceptDoc>>

\* saveDocument rejects (no file content, the insert fails): there is no
\* document, the route answers 500.
UploadFails(route) ==
    /\ dpc = "idle"
    /\ dpipeline' = route
    /\ dpc' = "done"
    /\ dfailed' = "save"
    /\ dresponse' = 500
    /\ UNCHANGED <<dstatus, dlog, dleft, dindexed, exceptDoc>>

\* POST /process-url: processDocumentFromUrl fetches the file.
ProcessUrl ==
    /\ dpc = "idle"
    /\ dpipeline' = "url"
    /\ dstatus' = "unreported"
    /\ dpc' = "fetching"
    /\ UNCHANGED <<dlog, dleft, dindexed, dfailed, dresponse, exceptDoc>>

FetchFile ==
    /\ dpc = "fetching"
    /\ dpc' = "saved"
    /\ UNCHANGED <<dpipeline, dstatus, dlog, dleft, dindexed, dfailed, dresponse,
                   exceptDoc>>

FetchFails ==
    /\ dpc = "fetching"
    /\ dpc' = "failing"
    /\ dfailed' = "fetch"
    /\ UNCHANGED <<dpipeline, dstatus, dlog, dleft, dindexed, dresponse, exceptDoc>>

\* extractTextFromFile resolves with a text of n chunks.  The upload route
\* starts processDocument without awaiting it and answers, the process route
\* awaits it; processDocument first updates the status.
\* processDocumentFromUrl goes on to chunk and embed.
ExtractText(n) ==
    /\ dpc = "saved"
    /\ dleft' = n
    /\ IF dpipeline \in DbRoutes
       THEN dpc' = "marking" /\ dresponse' = (IF dpipeline = "upload" THEN 200 ELSE dresponse)
       ELSE dpc' = (IF n > 0 THEN "embedding" ELSE "indexing") /\ dresponse' = dresponse
    /\ UNCHANGED <<dpipeline, dstatus, dlog, dindexed, dfailed, exceptDoc>>

\* extractTextFromFile rejects (a legacy .doc, an unreadable file).  The
\* upload and process routes answer 500 from its catch; processDocumentFromUrl goes to
\* its catch.
ExtractFails ==
    /\ dpc = "saved"
    /\ dfailed' = "extract"
    /\ IF dpipeline \in DbRoutes
       THEN dpc' = "done" /\ dresponse' = 500
       ELSE dpc' = "failing" /\ dresponse' = dresponse
    /\ UNCHANGED <<dpipeline, dstatus, dlog, dleft, dindexed, exceptDoc>>

\* processDocument: UPDATE documents SET status = 'processing'.
MarkProcessing ==
    /\ dpc = "marking"
    /\ SetStatus("processing")
    /\ dpc' = IF dleft > 0 THEN "embedding" ELSE "completing"
    /\ UNCHANGED <<dpipeline, dleft, dindexed, dfailed, dresponse, exceptDoc>>

\* A statement of processDocument other than an embedding rejects: the
\* update to processing, the insert of a chunk, the update to completed.
QueryFails ==
    /\ dpc \in {"marking", "completing"} \/ (dpc = "embedding" /\ dpipeline \in DbRoutes)
    /\ dpc' = "failing"
    /\ dfailed' = "database"
    /\ UNCHANGED <<dpipeline, dstatus, dlog, dleft, dindexed, dresponse, exceptDoc>>

\* One round of the loop over the chunks: the embedding is generated and the
\* chunk record is made (and, for an upload, inserted).
EmbedChunk ==
    /\ dpc = "embedding"
    /\ dleft' = dleft - 1
    /\ dpc' = IF dleft > 1 THEN "embedding"
              ELSE IF dpipeline \in DbRoutes THEN "completing" ELSE "indexing"
    /\ UNCHANGED <<dpipeline, dstatus, dlog, dindexed, dfailed, dresponse, exceptDoc>>

EmbedFails ==
    /\ dpc = "embedding"
    /\ dpc' = "failing"
    /\ dfailed' = "embed"
    /\ UNCHANGED <<dpipeline, dstatus, dlog, dleft, dindexed, dresponse, exceptDoc>>

\* processDocument: UPDATE documents SET status = 'completed'; the upload
\* route then indexes the chunk records.
MarkCompleted ==
    /\ dpc = "completing"
    /\ SetStatus("completed")
    /\ dpc' = "indexing"
    /\ UNCHANGED <<dpipeline, dleft, dindexed, dfailed, dresponse, exceptDoc>>

\* bulkIndexChunks resolves.  The upload is over, the process route answers;
\* processDocumentFromUrl reports the document as completed.
IndexChunks ==
    /\ dpc = "indexing"
    /\ dindexed' = TRUE
    /\ dpc' = IF dpipeline \in DbRoutes THEN "done" ELSE "reporting"
    /\ dresponse' = IF dpipeline = "process" THEN 200 ELSE dresponse
    /\ UNCHANGED <<dpipeline, dstatus, dlog, dleft, dfailed, exceptDoc>>

\* bulkIndexChunks rejects.  The upload route logs the error in the catch of
\* the background promise, the process route answers 500;
\* processDocumentFromUrl goes to its catch.
IndexFails ==
    /\ dpc = "indexing"
    /\ dfailed' = "index"
    /\ dpc' = IF dpipeline \in DbRoutes THEN "done" ELSE "failing"
    /\ dresponse' = IF dpipeline = "process" THEN 500 ELSE dresponse
    /\ UNCHANGED <<dpipeline, dstatus, dlog, dleft, dindexed, exceptDoc>>

\* processDocumentFromUrl: PATCH status completed; the route answers 200.
ReportCompleted ==
    /\ dpc = "reporting"
    /\ SetStatus("completed")
    /\ dpc' = "done"
    /\ dresponse' = 200
    /\ UNCHANGED <<dpipeline, dleft, dindexed, dfailed, exceptDoc>>

ReportFails ==
    /\ dpc = "reporting"
    /\ dpc' = "failing"
    /\ dfailed' = "report"
    /\ UNCHANGED <<dpipeline, dstatus, dlog, dleft, dindexed, dresponse, exceptDoc>>

\* The catch of processDocument (UPDATE status = 'failed') and of
\* processDocumentFromUrl (PATCH status failed); the error is thrown on, and
\* a route that awaited the run answers 500.
MarkFailed ==
    /\ dpc = "failing"
    /\ SetStatus("failed")
    /\ dpc' = "done"
    /\ dresponse' = IF dpipeline = "upload" THEN dresponse ELSE 500
    /\ UNCHANGED <<dpipeline, dleft, dindexed, dfailed, exceptDoc>>

\* The update to failed rejects as well: the status stays as it is.
MarkFailedFails ==
    /\ dpc = "failing"
    /\ dpc' = "done"
    /\ dresponse' = IF dpipeline = "upload" THEN dresponse ELSE 500
    /\ UNCHANGED <<dpipeline, dstatus, dlog, dleft, dindexed, dfailed, exceptDoc>>

\* ---------------------------------------------------------------- chunking
\* chunkText of service/documentService.ts.  A text is a sequence of lines
\* joined by "\n"; a line is known by the marker it starts with and by its
\* length.  A line with content has no white space at its ends and is one
\* sentence that ends with its only "."; two lines with equal fields are the
\* same string, and no line is part of another.  Of the table of section
\* patterns the two keyword patterns of the price and the rules sections are
\* modelled.  Titles are written without their diacritics; each letter
\* counts as one character, as in the source.

\* Lines of a text.
MaxLines == 4

LineTexts ==
    { [kind |-> "plain", len |-> 60], [kind |-> "plain", len |-> 20],
      [kind |-> "price", len |-> 60], [kind |-> "price", len |-> 20],
      [kind |-> "rules", len |-> 60], [kind |-> "blank", len |-> 0] }

Texts == UNION { [1..n -> LineTexts] : n \in 1..MaxLines }

\* chunk_size of the document's metadata; 500 when it has none.
TokenBudgets == {10, 20, 500}

IsBlank(line) == line.kind = "blank"

\* text.trim().length > 0
HasContent(text) == \E i \in 1..Len(text) : ~IsBlank(text[i])

\* The length of lines a..b and the "\n" between them.
RECURSIVE SpanLength(_, _, _)
SpanLength(text, a, b) ==
    IF a > b THEN 0
    ELSE IF a = b THEN text[a].len
    ELSE text[a].len + 1 + SpanLength(text, a + 1, b)

TextLength(text) == SpanLength(text, 1, Len(text))

\* The offset of the first character of line i.
LineStart(text, i) == IF i = 1 THEN 0 ELSE SpanLength(text, 1, i - 1) + 1

\* The lines with content of a..b, in order.
ContentLines(text, a, b) ==
    SelectSeq([k \in 1..(b - a + 1) |-> a + k - 1], LAMBDA i : ~IsBlank(text[i]))

\* substring(...).trim(): lines a..b without the blank lines at the ends.
TrimSpan(text, a, b) ==
    LET content == ContentLines(text, a, b)
    IN  IF content = <<>> THEN <<a, a - 1>>
        ELSE <<content[1], content[Len(content)]>>

\* Math.ceil(text.length / 4), of a string of the given length.
estimateTokenCount(length) == (length + 3) \div 4

sectionPatterns ==
    << [marker |-> "price", stops |-> {"rules"},
        title |-> "Thong tin gia thue", priority |-> 9],
       [marker |-> "rules", stops |-> {},
        title |-> "Quy dinh va noi quy", priority |-> 7] >>

\* [^\n]+(?:\n(?!stop)[^\n]+)*: the match runs on over the lines that have
\* content and do not start with a stop word.
RECURSIVE MatchEnd(_, _, _)
MatchEnd(text, i, stops) ==
    IF i < Len(text) /\ ~IsBlank(text[i + 1]) /\ text[i + 1].kind \notin stops
    THEN MatchEnd(text, i + 1, stops)
    ELSE i

\* text.matchAll(pattern.regex), from line `from` on.
RECURSIVE matchAll(_, _, _)
matchAll(text, pattern, from) ==
    LET starts == { i \in from..Len(text) : text[i].kind = pattern.marker }
    IN  IF starts = {} THEN <<>>
        ELSE LET a == CHOOSE i \in starts : \A j \in starts : i <= j
                 b == MatchEnd(text, a, pattern.stops)
             IN  <<[a |-> a, b |-> b, pattern |-> pattern]>>
                     \o matchAll(text, pattern, b + 1)

\* text.indexOf(content), content being lines a..b: the first line at which
\* the same lines stand.
indexOf(text, a, b) ==
    LET same(i) == \A k \in 0..(b - a) : text[i + k] = text[a + k]
    IN  CHOOSE i \in 1..a : same(i) /\ \A j \in 1..(i - 1) : ~same(j)

isOverlapping_endsOnly(ranges, startPos, endPos) ==
    \E r \in 1..Len(ranges) :
        \/ startPos >= ranges[r].start /\ startPos < ranges[r].end
        \/ endPos > ranges[r].start /\ endPos <= ranges[r].end

isOverlapping(ranges, startPos, endPos) ==
    \E r \in 1..Len(ranges) :
        \/ startPos >= ranges[r].start /\ startPos < ranges[r].end
        \/ endPos > ranges[r].start /\ endPos <= ranges[r].end
        \/ startPos <= ranges[r].start /\ endPos >= ranges[r].end

SectionTitle(name, part) == [name |-> name, part |-> part]

\* The loop over the matches: a match is kept when it is longer than 50
\* characters and does not overlap a range kept before.
RECURSIVE Accept(_, _, _)
Accept(text, matches, ranges) ==
    IF matches = <<>> THEN ranges
    ELSE LET m == Head(matches)
             length == SpanLength(text, m.a, m.b)
             first == indexOf(text, m.a, m.b)
             startPos == LineStart(text, first)
             range == [start |-> startPos, end |-> startPos + length,
                       first |-> first, last |-> first + (m.b - m.a),
                       title |-> SectionTitle(m.pattern.title, 0),
                       priority |-> m.pattern.priority]
         IN  Accept(text, Tail(matches),
                    IF length > 50 /\ ~isOverlapping(ranges, startPos, startPos + length)
                    THEN Append(ranges, range)
                    ELSE ranges)

matchedRanges(text) ==
    Accept(text, matchAll(text, sectionPatterns[1], 1)
                     \o matchAll(text, sectionPatterns[2], 1), <<>>)

\* An unmatched stretch is kept when, trimmed, it is longer than 50 characters.
KeptUnmatched(text, span) ==
    IF SpanLength(text, span[1], span[2]) > 50 THEN <<span>> ELSE <<>>

\* The gaps before, between and after the ranges sorted by position;
\* lastLine is the line lastEnd is the end of (0 at the start).
RECURSIVE unmatchedSections(_, _, _)
unmatchedSections(text, ranges, lastLine) ==
    IF ranges = <<>>
    THEN IF lastLine < Len(text)
         THEN KeptUnmatched(text, TrimSpan(text, lastLine + 1, Len(text)))
         ELSE <<>>
    ELSE LET range == Head(ranges)
         IN  (IF range.first > lastLine
              THEN KeptUnmatched(text, TrimSpan(text, lastLine + 1, range.first - 1))
              ELSE <<>>)
                 \o unmatchedSections(text, Tail(ranges), Max(lastLine, range.last))

UnmatchedTitle_alwaysNumbered(count, i) == SectionTitle("Mo ta khac", i)

\* unmatchedSections.length === 1 ? "Mo ta khac" : `Mo ta khac - Phan ${i + 1}`
UnmatchedTitle(count, i) ==
    IF count = 1 THEN SectionTitle("Mo ta khac", 0) ELSE SectionTitle("Mo ta khac", i)

detectSemanticSections(text) ==
    LET ranges == matchedRanges(text)
        sorted == SortDesc(ranges, [p \in 1..Len(ranges) |-> 0 - ranges[p].start])
        gaps == unmatchedSections(text, sorted, 0)
        matched == [p \in 1..Len(ranges) |->
                       [title |-> ranges[p].title, first |-> ranges[p].first,
                        last |-> ranges[p].last, priority |-> ranges[p].priority]]
        others == [i \in 1..Len(gaps) |->
                      [title |-> UnmatchedTitle(Len(gaps), i), first |-> gaps[i][1],
                       last |-> gaps[i][2], priority |-> 3]]
        sections == matched \o others
        position(s) == LineStart(text, indexOf(text, s.first, s.last))
    IN  SortDesc(sections, [p \in 1..Len(sections) |->
                     sections[p].priority * 1000 - position(sections[p])])

\* The title line of a chunk: [title], [title - Phan n], [title - Tiep theo].
ChunkTitle(section, suffix, n) == [section |-> section, suffix |-> suffix, n |-> n]

NameLength(name) ==
    IF name = "Mo ta khac" THEN 10
    ELSE IF name = "Thong tin gia thue" THEN 18
    ELSE 19

\* The length of the title line, brackets included, "\n" not.
TitleLength(title) ==
    2 + NameLength(title.section.name)
      + (IF title.section.part > 0 THEN 8 + DecimalDigits(title.section.part) ELSE 0)
      + (IF title.suffix = "part" THEN 8 + DecimalDigits(title.n)
         ELSE IF title.suffix = "continued" THEN 12
         ELSE 0)

\* An emitted chunk: its title line, the lines of the text in its body, and
\* the length of the whole string.
Chunk(title, lines, length) == [title |-> title, body |-> lines, len |-> length]

\* The chunk being built: `tail` is the white space at its end, which the
\* trim() of the push removes.
Building(chunks, title, lines, length, tokens, tail) ==
    [chunks |-> chunks, title |-> title, body |-> lines, len |-> length,
     tokens |-> tokens, tail |-> tail]

Fresh(chunks, title) ==
    Building(chunks, title, <<>>, TitleLength(title) + 1,
             estimateTokenCount(TitleLength(title) + 1), 1)

Pushed(st) == Append(st.chunks, Chunk(st.title, st.body, st.len - st.tail))

\* The loop over the sentences of a paragraph that is over the budget.
RECURSIVE SplitSentences(_, _, _, _, _, _)
SplitSentences(text, section, maxTokens, st, a, b) ==
    IF a > b THEN st
    ELSE LET length == text[a].len
             tokens == estimateTokenCount(length)
             title == ChunkTitle(section, "part", Len(st.chunks) + 2)
             whole == TitleLength(title) + 1 + length + 1
             next == IF st.tokens + tokens > maxTokens /\ st.tokens > 0
                     THEN Building(Pushed(st), title, <<a>>, whole,
                                   estimateTokenCount(whole), 1)
                     ELSE Building(st.chunks, st.title, Append(st.body, a),
                                   st.len + length + 1, st.tokens + tokens, 1)
         IN  SplitSentences(text, section, maxTokens, next, a + 1, b)

\* content.split(/\n\n+/): the runs of lines with content in a..b.
RECURSIVE Paragraphs(_, _, _)
Paragraphs(text, a, b) ==
    IF a > b THEN <<>>
    ELSE IF IsBlank(text[a]) THEN Paragraphs(text, a + 1, b)
    ELSE LET ends == { e \in a..b : \A i \in a..e : ~IsBlank(text[i]) }
             e == CHOOSE x \in ends : \A y \in ends : y <= x
         IN  <<<<a, e>>>> \o Paragraphs(text, e + 1, b)

\* The loop over the paragraphs of a section that is over the budget.
RECURSIVE SplitParagraphs(_, _, _, _, _)
SplitParagraphs(text, section, maxTokens, st, paragraphs) ==
    LET plain == ChunkTitle(section, "none", 0)
        base == estimateTokenCount(TitleLength(plain) + 1)
    IN  IF paragraphs = <<>>
        THEN IF st.tokens > base THEN Pushed(st) ELSE st.chunks
        ELSE LET p == Head(paragraphs)
                 length == SpanLength(text, p[1], p[2])
                 tokens == estimateTokenCount(length)
                 saved == IF st.tokens > base THEN Pushed(st) ELSE st.chunks
                 numbered == ChunkTitle(section, "part", Len(saved) + 1)
                 continued == ChunkTitle(section, "continued", 0)
                 whole == TitleLength(continued) + 1 + length + 2
                 next ==
                     IF tokens > maxTokens
                     THEN Fresh(Pushed(SplitSentences(text, section, maxTokens,
                                    Fresh(saved, numbered), p[1], p[2])), plain)
                     ELSE IF st.tokens + tokens > maxTokens /\ st.tokens > base
                     THEN Building(Pushed(st), continued, ContentLines(text, p[1], p[2]),
                                   whole, estimateTokenCount(whole), 2)
                     ELSE Building(st.chunks, st.title,
                                   st.body \o ContentLines(text, p[1], p[2]),
                                   st.len + length + 2, st.tokens + tokens, 2)
             IN  SplitParagraphs(text, section, maxTokens, next, Tail(paragraphs))

\* splitLongSection of the content that is lines a..b of the text.
splitLongSection(text, a, b, section, maxTokens) ==
    SplitParagraphs(text, section, maxTokens,
                    Fresh(<<>>, ChunkTitle(section, "none", 0)), Paragraphs(text, a, b))

\* The chunks of one section: one chunk when the content is within the
\* budget, the chunks of splitLongSection otherwise.
SectionChunks(text, a, b, section, maxTokens) ==
    LET title == ChunkTitle(section, "none", 0)
        length == SpanLength(text, a, b)
    IN  IF estimateTokenCount(length) <= maxTokens
        THEN <<Chunk(title, ContentLines(text, a, b), TitleLength(title) + 1 + length)>>
        ELSE splitLongSection(text, a, b, section, maxTokens)

RECURSIVE ChunksOfSections(_, _, _)
ChunksOfSections(text, sections, maxTokens) ==
    IF sections = <<>> THEN <<>>
    ELSE LET s == Head(sections)
         IN  SectionChunks(text, s.first, s.last, s.title, maxTokens)
                 \o ChunksOfSections(text, Tail(sections), maxTokens)

chunkBySemantic(text, maxTokens) ==
    LET sections == detectSemanticSections(text)
    IN  IF sections = <<>>
        THEN SectionChunks(text, 1, Len(text), SectionTitle("Mo ta khac", 0), maxTokens)
        ELSE ChunksOfSections(text, sections, maxTokens)

chunkText(text, chunkSize) ==
    IF ~HasContent(text) THEN <<>> ELSE chunkBySemantic(text, chunkSize)

InitChunk ==
    /\ ckStage = "idle"
    /\ ckText = <<>>
    /\ ckBudget = 0
    /\ ckChunks = <<>>
    /\ ckRanges = <<>>

\* processDocument is given the text of a document and its chunk size.
ChunkInput(text, chunkSize) ==
    /\ ckStage = "idle"
    /\ ckStage' = "given"
    /\ ckText' = text
    /\ ckBudget' = chunkSize
    /\ UNCHANGED <<ckChunks, ckRanges, exceptChunk>>

\* const chunks = chunkText(fullText, chunkSize)
ChunkText ==
    /\ ckStage = "given"
    /\ ckStage' = "chunked"
    /\ ckChunks' = chunkText(ckText, ckBudget)
    /\ ckRanges' = IF HasContent(ckText) THEN matchedRanges(ckText) ELSE <<>>
    /\ UNCHANGED <<ckText, ckBudget, exceptChunk>>

\* ------------------------------------------------------ embedding pipeline
\* initializeEmbeddingModel and generateEmbedding. Call 0 is the one made by
\* initializeRAGSystem while the server starts; the others are made by
\* generateEmbedding for requests, which arrive once the server listens.

StartupCall == 0
EmbedCalls == 0..NEmbed

InitEmbed ==
    /\ server = "starting"
    /\ embeddingPipeline = 0
    /\ epc = [c \in EmbedCalls |-> "idle"]
    /\ emodel = [c \in EmbedCalls |-> 0]
    /\ eloads = 0
    /\ efailures = 0

\* startServer awaits initializeRAGSystem, which catches every error, and
\* listens after it whatever it returned.
AfterReturn(c) == IF c = StartupCall THEN "listening" ELSE server

MayCall(c) ==
    /\ epc[c] = "idle"
    /\ IF c = StartupCall THEN server = "starting" ELSE server = "listening"

\* A step of initializeRAGSystem before the model is loaded throws (the
\* database or the index is not reachable): the server listens with no
\* pipeline.
StartupSkipsModel ==
    /\ MayCall(StartupCall)
    /\ epc' = [epc EXCEPT ![StartupCall] = "skipped"]
    /\ server' = "listening"
    /\ UNCHANGED <<embeddingPipeline, emodel, eloads, efailures, exceptEmbed>>

\* if (embeddingPipeline) return embeddingPipeline;
InitializeCached(c) ==
    /\ MayCall(c)
    /\ embeddingPipeline # 0
    /\ emodel' = [emodel EXCEPT ![c] = embeddingPipeline]
    /\ epc' = [epc EXCEPT ![c] = "ready"]
    /\ UNCHANGED <<server, embeddingPipeline, eloads, efailures, exceptEmbed>>

\* The variable is null: the call goes on to await import(...).
InitializeImports(c) ==
    /\ MayCall(c)
    /\ embeddingPipeline = 0
    /\ epc' = [epc EXCEPT ![c] = "importing"]
    /\ UNCHANGED <<server, embeddingPipeline, emodel, eloads, efailures, exceptEmbed>>

\* The import resolved: pipeline("feature-extraction", ...) is called and
\* awaited; it builds a new instance.
LoadModel(c) ==
    /\ epc[c] = "importing"
    /\ eloads' = eloads + 1
    /\ emodel' = [emodel EXCEPT ![c] = eloads + 1]
    /\ epc' = [epc EXCEPT ![c] = "loading"]
    /\ UNCHANGED <<server, embeddingPipeline, efailures, exceptEmbed>>

\* embeddingPipeline = await pipeline(...); return embeddingPipeline;
ModelLoaded(c) ==
    /\ epc[c] = "loading"
    /\ embeddingPipeline' = emodel[c]
    /\ epc' = [epc EXCEPT ![c] = "ready"]
    /\ server' = AfterReturn(c)
    /\ UNCHANGED <<emodel, eloads, efailures, exceptEmbed>>

\* pipeline(...) rejects: the catch block logs and rethrows.
LoadFails(c) ==
    /\ epc[c] = "loading"
    /\ efailures' = efailures + 1
    /\ emodel' = [emodel EXCEPT ![c] = 0]
    /\ epc' = [epc EXCEPT ![c] = "failed"]
    /\ server' = AfterReturn(c)
    /\ UNCHANGED <<embeddingPipeline, eloads, exceptEmbed>>

\* generateEmbedding: const model = await initializeEmbeddingModel(), then
\* model(text, ...) with the instance the call was given.
generateEmbedding(c) ==
    /\ c # StartupCall
    /\ epc[c] = "ready"
    /\ epc' = [epc EXCEPT ![c] = "embedded"]
    /\ UNCHANGED <<server, embeddingPipeline, emodel, eloads, efailures, exceptEmbed>>

Init ==
    /\ InitOrch /\ InitRetr /\ InitRank /\ InitIds /\ InitInfo /\ InitDoc
    /\ InitChunk /\ InitEmbed

Next ==
    \/ \E r \in Requests :
        \/ Arrive(r)
        \/ StartInvalid(r)
        \/ StartDirect(r)
        \/ StartDelegate(r)
        \/ DirectReply(r)
        \/ DirectError(r)
        \/ InfoSuccess(r)
        \/ InfoFailure(r)
        \/ WrapReply(r)
        \/ WrapError(r)
    \/ \E s \in SessionIds : clearSessionMemory(s)

Spec == Init /\ [][Next]_vars

NextGate == \E r \in GateRequests : Arrive(r) \/ GateCycle(r)

SpecGate == Init /\ [][NextGate]_vars

\* The gate with every admitted cycle finishing: the finally block of a call
\* that holds a slot is run.
SpecGateFair == SpecGate /\ \A r \in GateRequests : WF_vars(GateCycle(r))

NextSession ==
    \/ \E s \in SessionIds, m \in UserMessages : SessionCycle(s, m)
    \/ \E s \in SessionIds : clearSessionMemory(s)

SpecSession == Init /\ [][NextSession]_vars

NextRetr ==
    \/ \E b \in Bodies : PostRetrieveRejected(b) \/ PostRetrieve(b)
    \/ EmbeddingFails
    \/ PostSearch
    \/ UnknownSearchType
    \/ EngineFails
    \/ \E kw \in KeywordScores, sim \in Similarities : EngineAnswers(kw, sim)

SpecRetr == Init /\ [][NextRetr]_vars

NextRank ==
    \/ \E chunks \in RankLists : RankInput(chunks)
    \/ Deduplicate
    \/ DeduplicateAgain
    \/ \E query \in RankQueries : Rerank(query)

SpecRank == Init /\ [][NextRank]_vars

NextIds ==
    \E documentId \in DocumentIds, i \in ChunkIndexes :
        PushFirst(documentId, i) \/ PushSecond(documentId, i)

SpecIds == Init /\ [][NextIds]_vars

NextInfo ==
    \/ InvokeExecutor
    \/ ExecutorAnswers
    \/ \E batch \in Batches : ExecutorReturnsBatch(batch)
    \/ ExecutorReturnsOther
    \/ ExecutorFails
    \/ \E i \in 1..MaxBatch : ToolResolves(i) \/ ToolRejects(i)
    \/ SynthesisResolves
    \/ SynthesisRejects

SpecInfo == Init /\ [][NextInfo]_vars

NextDoc ==
    \/ \E route \in DbRoutes : Upload(route)
    \/ \E route \in DbRoutes : UploadFails(route)
    \/ ProcessUrl
    \/ FetchFile
    \/ FetchFails
    \/ \E n \in 0..MaxChunks : ExtractText(n)
    \/ ExtractFails
    \/ MarkProcessing
    \/ QueryFails
    \/ EmbedChunk
    \/ EmbedFails
    \/ MarkCompleted
    \/ IndexChunks
    \/ IndexFails
    \/ ReportCompleted
    \/ ReportFails
    \/ MarkFailed
    \/ MarkFailedFails

SpecDoc == Init /\ [][NextDoc]_vars

NextChunk ==
    \/ \E text \in Texts, chunkSize \in TokenBudgets : ChunkInput(text, chunkSize)
    \/ ChunkText

SpecChunk == Init /\ [][NextChunk]_vars

NextEmbed ==
    \/ StartupSkipsModel
    \/ \E c \in EmbedCalls :
        \/ InitializeCached(c)
        \/ InitializeImports(c)
        \/ LoadModel(c)
        \/ ModelLoaded(c)
        \/ LoadFails(c)
        \/ generateEmbedding(c)

SpecEmbed == Init /\ [][NextEmbed]_vars

\* ----------------------------------------------------------------- claims

IsPrefix(p, q) == Len(p) <= Len(q) /\ SubSeq(q, 1, Len(p)) = p

\* The calls that hold a slot: acquired and not yet released.
Holders ==
    { r \in AllRequests : pc[r] \in {"admitted", "direct", "delegating", "wrapping"} }

Released == { r \in AllRequests : releases[r] > 0 }

\* C1: at most MAX_CONCURRENT_REQUESTS (5) calls hold a slot at any time, and
\* of a burst of 5 + k calls the k later ones get their slot only after as
\* many earlier ones have released theirs.
C1_AtMostFiveActive ==
    /\ Cardinality(Holders) <= 5
    /\ Len(grants) <= 5 + Cardinality(Released)

\* C1 witness: the gate is full and two calls of the burst wait.
C1_GateFull == Cardinality(Holders) = 5 /\ Len(requestQueue) = 2

\* C2: slots are granted in arrival order (calls are numbered in the order
\* of their acquireRequestSlot calls), and no call that arrived after a
\* waiting call holds or has held a slot.
C2_GrantedInArrivalOrder ==
    /\ \A i \in 1..Len(grants) : grants[i] = i
    /\ \A a \in AllRequests, b \in AllRequests :
        (pc[a] = "waiting" /\ a < b) => pc[b] \in {"idle", "waiting"}

\* C2 witness: of two calls that had to wait, the earlier one has its slot
\* while the later one still waits.
C2_FirstWaiterServed ==
    \E a \in GateRequests, b \in GateRequests :
        /\ 5 < a /\ a < b
        /\ pc[a] = "admitted"
        /\ pc[b] = "waiting"
        /\ Len(grants) = a

\* C3: a call has released its slot exactly once when its cycle is over and
\* not before, whichever way the cycle ended; the counter equals the number
\* of holders, and once all cycles are over it is 0 and nobody waits.
C3_ReleasedExactlyOnce ==
    /\ \A r \in Requests :
        /\ releases[r] = (IF pc[r] = "done" THEN 1 ELSE 0)
        /\ pc[r] = "done" <=> result[r].kind \in {"response", "error"}
    /\ activeRequests = Cardinality(Holders)
    /\ (\A r \in Requests : pc[r] = "done")
          => activeRequests = 0 /\ requestQueue = <<>>

\* C3 witness: all cycles are over, one ended with a response after its
\* delegation timed out and one with an error.
C3_AllOverAfterTimeoutAndError ==
    /\ \A r \in Requests : pc[r] = "done" /\ releases[r] = 1
    /\ \E r \in Requests : timedOut[r]
    /\ \E r \in Requests : result[r].kind = "error"
    /\ activeRequests = 0

\* C4: the step in which the cycle of a call whose delegation deadline
\* expired ends writes nothing to any session memory.
C4_TimeoutWritesNothing ==
    [][\A r \in Requests :
          (pc[r] = "delegating" /\ timedOut'[r]) => memories' = memories]_vars

\* C5: a cycle whose delegation deadline expired ends with the localized
\* "took too long" error, not with a response.
C5_TimeoutSurfacesAsError ==
    \A r \in Requests :
        (pc[r] = "done" /\ timedOut[r]) => result[r] = Failure(ErrTookTooLong)

\* The last min(n, 6) of n exchanges, as the messages they were saved as.
LastSix(log) ==
    LET n == Len(log)
        kept == IF n <= 6 THEN n ELSE 6
    IN  [i \in 1..kept |-> log[n - kept + i]]

AsMessages(log) ==
    [j \in 1..(2 * Len(log)) |->
        IF j % 2 = 1
        THEN [type |-> "human", content |-> log[(j + 1) \div 2].input]
        ELSE [type |-> "ai", content |-> log[j \div 2].output]]

C7_GreetingAnsweredDirectly ==
    \A r \in Requests :
        /\ userMessage[r] = MsgHello => pc[r] = "direct"
        /\ (pc[r] = "direct" \/ \E i \in 1..Len(trace[r]) : trace[r][i] = "DirectAnswer")
              => /\ ~infoCalled[r]
                 /\ toolCalls[r] = 0
                 /\ \A i \in 1..Len(trace[r]) : trace[r][i] # "Delegating"

\* C7 witness: a call with the greeting has been classified and awaits the
\* model on the direct path.
C7_GreetingInFlight ==
    \E r \in Requests :
        /\ userMessage[r] = MsgHello
        /\ trace[r] = <<"Idle", "Classifying", "DirectAnswer">>
        /\ ~infoCalled[r]

InTrace(r, phase) == \E i \in 1..Len(trace[r]) : trace[r][i] = phase

FullCycles ==
    { <<"Idle", "Classifying", p, "Responding", "Idle">> :
        p \in {"DirectAnswer", "Delegating"} }

\* Cycles cut short by an error: before classification, or on the path.
CutCycles ==
    { <<"Idle", "Idle">> } \cup
    { <<"Idle", "Classifying", p, "Idle">> : p \in {"DirectAnswer", "Delegating"} }

\* C8: the phases of a cycle follow Idle, Classifying, one of DirectAnswer
\* and Delegating, Responding, Idle in this order (an error ends the cycle
\* from where it is); a call classifies only once it has its slot, calls the
\* model or the information provider only after classifying, takes one path
\* only, and responds only after the full sequence.
C8_PhasesInOrder ==
    \A r \in Requests :
        /\ \E t \in FullCycles \cup CutCycles : IsPrefix(trace[r], t)
        /\ InTrace(r, "Classifying") => \E i \in 1..Len(grants) : grants[i] = r
        /\ (infoCalled[r] \/ toolCalls[r] > 0 \/ pc[r] \in {"direct", "delegating", "wrapping"})
              => InTrace(r, "Classifying")
        /\ ~(InTrace(r, "DirectAnswer") /\ InTrace(r, "Delegating"))
        /\ result[r].kind = "response" => trace[r] \in FullCycles

\* C8 witness: one cycle ran the whole sequence on each path.
C8_BothPathsRun ==
    /\ \E r \in Requests :
          /\ trace[r] = <<"Idle", "Classifying", "Delegating", "Responding", "Idle">>
          /\ result[r] = Response(<<"finalResponse">>)
    /\ \E r \in Requests :
          /\ trace[r] = <<"Idle", "Classifying", "DirectAnswer", "Responding", "Idle">>
          /\ result[r] = Response(<<"directResponse">>)

\* C9: a retrieval request whose kb_scope is property or owner, sent or taken
\* from the default "property", and that carries no owner_id, ends with a
\* validation error (400): retrieveRelevantChunks is not called for it, no
\* search is posted to the engine and it gets no successful response.
C9_MissingOwnerRejected ==
    (/\ rpc # "idle"
     /\ RouteOptions(body).kbScope \in {"property", "owner"}
     /\ body.owner_id = "")
    => (/\ rpc = "done"
        /\ response.status = 400
        /\ options = NoOptions
        /\ searchBody = NoSearch)

\* C10: a retrieve call with an owner id returns, whatever the search type,
\* only chunks of that owner; and a hybrid search carries the same owner_id
\* and property_id term filters on its keyword clause and on its knn clause.
C10_OwnerFilterOnEveryClause ==
    /\ (response.status = 200 /\ options.ownerId # "") =>
            \A p \in 1..Len(response.chunks) :
                response.chunks[p].owner_id = options.ownerId
    /\ searchBody.kind = "hybrid" =>
            /\ searchBody.queryFilter = searchBody.knnFilter
            /\ searchBody.knnFilter =
                   [owner_id |-> options.ownerId, property_id |-> options.propertyId]

C10_HybridReturnsOwnersChunks ==
    /\ rpc = "done"
    /\ response.status = 200
    /\ options.searchType = "hybrid"
    /\ options.ownerId = "42"
    /\ options.propertyId = 0
    /\ Len(response.chunks) = 2

UniqueByChunkId(chunks) ==
    \A p \in 1..Len(chunks), q \in 1..Len(chunks) :
        chunks[p].chunk_id = chunks[q].chunk_id => p = q

\* C11: deduplicateChunks applied to its own result returns that result, the
\* same elements in the same order, and no two elements of its result share
\* a chunk_id.
C11_DedupeIdempotent ==
    /\ rankStage \in {"deduplicated", "deduplicated twice"} => UniqueByChunkId(rankOut)
    /\ rankStage = "deduplicated twice" => rankAgain = rankOut

\* C11 witness: a list with a repeated chunk_id, not in score order, went
\* through the function twice.
C11_DuplicateRemovedAndSorted ==
    /\ rankStage = "deduplicated twice"
    /\ Len(rankIn) = 3
    /\ rankIn[1].chunk_id = rankIn[3].chunk_id
    /\ BaseScore(rankIn[1]) < BaseScore(rankIn[2])
    /\ Len(rankOut) = 2

\* C12: of several results with the same chunk_id, the one kept for that id
\* is the one with the highest score.
C12_KeepsHighestScore ==
    rankStage = "deduplicated" =>
        \A p \in 1..Len(rankOut), q \in 1..Len(rankIn) :
            rankIn[q].chunk_id = rankOut[p].chunk_id
                => BaseScore(rankIn[q]) <= BaseScore(rankOut[p])

\* C13: rerankChunks gives every chunk rerank_score = base * (1 + min(0.1 * m,
\* 0.5)), m the number of query words longer than 3 characters that occur in
\* the chunk text; so base <= rerank_score <= 1.5 * base (in hundredths).
C13_RerankScoreWithinCap ==
    rankStage = "reranked" =>
        /\ Len(rankOut) = Len(rankIn)
        /\ \A p \in 1..Len(rankOut) :
              LET c == rankOut[p]
                  base == BaseScore(c)
                  m == KeywordMatches(c, rankQuery)
              IN  /\ c.rerank_score = base * 10 + base * Min(m, 5)
                  /\ 10 * base <= c.rerank_score
                  /\ c.rerank_score <= 15 * base

\* C13 witness: a chunk with more than five matching words got the full boost
\* and overtook a chunk with a better base score.
C13_BoostCapped ==
    /\ rankStage = "reranked"
    /\ Len(rankOut) = 2
    /\ KeywordMatches(rankOut[1], rankQuery) > 5
    /\ rankOut[1].rerank_score = 15 * BaseScore(rankOut[1])
    /\ BaseScore(rankOut[1]) < BaseScore(rankOut[2])

\* C16: chunk_id is an injective function of (document_id, chunk_index): two
\* chunk records that differ in document_id or in chunk_index never have the
\* same chunk_id.
C16_ChunkIdInjective ==
    (idStage = 2 /\ idFirst.chunk_id = idSecond.chunk_id)
        => (/\ idFirst.document_id = idSecond.document_id
            /\ idFirst.chunk_index = idSecond.chunk_index)

InvocationsOf(batch) == { i \in 1..Len(batch) : batch[i] = "tool" }
Resolved == { i \in DOMAIN itool : itool[i] \in {"data", "error text"} }

C20_AllFailedNoSynthesis ==
    (/\ ipc \in {"synthesizing", "done"}
     /\ InvocationsOf(ibatch) # {}
     /\ \A i \in InvocationsOf(ibatch) : itool[i] \in {"rejected", "error text"})
    => (/\ illm = 0
        /\ ipc = "done"
        /\ iresult = InfoReturn(<<"Khong the lay thong tin luc nay.">>,
                                ToolsUsed(ibatch), FALSE))

\* The moves of a document's status.
StatusMoves ==
    { <<"pending", "processing">>, <<"processing", "completed">>,
      <<"processing", "failed">> }

\* C17: the status of a document only moves pending -> processing ->
\* completed or pending -> processing -> failed: no run skips processing, and
\* after completed or failed the run does not change the status again.
C17_StatusMovesInOrder ==
    \A k \in 1..(Len(dlog) - 1) : <<dlog[k], dlog[k + 1]>> \in StatusMoves

\* C18: a run in which text extraction, embedding or indexing failed ends
\* with the document failed; no run ends with the document pending or
\* processing, and none ends with it completed while its chunks are not in
\* the index.
C18_FailureEndsFailed ==
    (dpc = "done" /\ dstatus # "none") =>
        /\ dfailed \in {"extract", "embed", "index"} => dstatus = "failed"
        /\ dstatus \notin {"pending", "processing"}
        /\ dstatus = "completed" => dindexed

\* The chunks that hold line i of the text.
ChunksHolding(i) == { c \in 1..Len(ckChunks) : \E k \in 1..Len(ckChunks[c].body) : ckChunks[c].body[k] = i }

\* C14: chunkText drops no content: every line with content of the text is
\* in exactly one of the chunks, whether it lies in a matched section or
\* before, between or after the matched sections.
C14_NoContentDropped ==
    ckStage = "chunked" =>
        \A i \in 1..Len(ckText) :
            ~IsBlank(ckText[i]) => Cardinality(ChunksHolding(i)) = 1

NoMarker(text) == \A i \in 1..Len(text) : text[i].kind \in {"plain", "blank"}

\* The chunks are those of one section titled "Mo ta khac": one chunk with
\* the plain title when the text is within the budget, chunks of that
\* section only otherwise.
OneOtherSection ==
    /\ ckChunks # <<>>
    /\ \A c \in 1..Len(ckChunks) : ckChunks[c].title.section = SectionTitle("Mo ta khac", 0)
    /\ estimateTokenCount(TextLength(ckText)) <= ckBudget =>
           /\ Len(ckChunks) = 1
           /\ ckChunks[1].title.suffix = "none"

\* C15 as stated: for every text that is not the empty string and has no
\* section marker, the chunks are those of one "Mo ta khac" section.
C15_NonEmptyTextOneOther ==
    (ckStage = "chunked" /\ TextLength(ckText) > 0 /\ NoMarker(ckText)) => OneOtherSection

\* C15: for every text with a character that is not white space and with
\* no section marker, the chunks are those of one "Mo ta khac" section: one
\* chunk when the text is within the token budget, sub-chunks of that
\* section only otherwise.
C15_NoMarkerOneOther ==
    (ckStage = "chunked" /\ HasContent(ckText) /\ NoMarker(ckText)) => OneOtherSection

C15_OverBudgetSplit ==
    /\ ckStage = "chunked"
    /\ HasContent(ckText)
    /\ NoMarker(ckText)
    /\ estimateTokenCount(TextLength(ckText)) > ckBudget
    /\ Len(ckChunks) > 1
    /\ OneOtherSection

\* The candidates of section detection, in the order of the loop: the
\* matches of the first pattern of the table, then those of the second.
Candidates(text) ==
    matchAll(text, sectionPatterns[1], 1) \o matchAll(text, sectionPatterns[2], 1)

Disjoint(r, q) == r.end <= q.start \/ q.end <= r.start

\* C23: the spans accepted by section detection are pairwise
\* non-overlapping, and the first candidate of the loop (first pattern, first
\* match), when long enough to be a section, is the first span accepted.
C23_AcceptedSpansDisjoint ==
    ckStage = "chunked" =>
        /\ \A i, j \in 1..Len(ckRanges) : i # j => Disjoint(ckRanges[i], ckRanges[j])
        /\ \A i \in 1..Len(ckRanges) : ckRanges[i].start < ckRanges[i].end
        /\ LET c == Candidates(ckText)
           IN  (c # <<>> /\ SpanLength(ckText, c[1].a, c[1].b) > 50) =>
                   /\ ckRanges # <<>>
                   /\ ckRanges[1].priority = c[1].pattern.priority
                   /\ ckRanges[1].end - ckRanges[1].start = SpanLength(ckText, c[1].a, c[1].b)

\* A rules match that runs over an accepted price span and beyond it was
\* rejected: only the price span is accepted.
C23_CoveringMatchRejected ==
    /\ ckStage = "chunked"
    /\ Len(ckRanges) = 1
    /\ ckRanges[1].priority = 9
    /\ \E k \in 1..Len(Candidates(ckText)) :
           LET m == Candidates(ckText)[k]
           IN  /\ m.pattern.marker = "rules"
               /\ SpanLength(ckText, m.a, m.b) > 50
               /\ LineStart(ckText, m.a) < ckRanges[1].start
               /\ LineStart(ckText, m.a) + SpanLength(ckText, m.a, m.b) > ckRanges[1].end

\* The length of what follows the title line of a chunk.
BodyLength(chunk) ==
    IF chunk.body = <<>> THEN 0 ELSE chunk.len - TitleLength(chunk.title) - 1

\* C24: every chunk starts with the title line of its section, and the
\* estimated token count of what follows the title line is within maxTokens.
C24_ChunkWithinBudget ==
    ckStage = "chunked" =>
        \A c \in 1..Len(ckChunks) :
            /\ ckChunks[c].len >= TitleLength(ckChunks[c].title)
            /\ estimateTokenCount(BodyLength(ckChunks[c])) <= ckBudget

\* C29: no chunk is a title line alone.
C29_NoTitleOnlyChunk ==
    ckStage = "chunked" => \A c \in 1..Len(ckChunks) : ckChunks[c].body # <<>>

\* C25: when every admitted cycle finishes, every call waiting in the queue
\* of the gate is granted a slot, and no call waits while a slot is free.
C25_WaitersEventuallyGranted ==
    /\ \A r \in GateRequests : (pc[r] = "waiting") ~> (pc[r] = "admitted")
    /\ [](requestQueue # <<>> => activeRequests >= MAX_CONCURRENT_REQUESTS)
    /\ <>[](requestQueue = <<>>)

\* C25 witness: every call of the burst has been granted a slot, the last
\* ones after waiting.
C25_AllWaitersGranted ==
    /\ Len(grants) = NGate
    /\ NGate > MAX_CONCURRENT_REQUESTS
    /\ requestQueue = <<>>

\* C26: 0 <= activeRequests <= 5 in every state, activeRequests = 5 while a
\* call waits, and a step that grants a slot while a call waits grants it to
\* the head of the queue and leaves the counter as it is.
C26_SlotHandedToHeadWaiter ==
    /\ [](/\ 0 <= activeRequests
          /\ activeRequests <= MAX_CONCURRENT_REQUESTS
          /\ requestQueue # <<>> => activeRequests = MAX_CONCURRENT_REQUESTS)
    /\ [][(requestQueue # <<>> /\ grants' # grants) =>
              /\ grants' = Append(grants, Head(requestQueue))
              /\ requestQueue' = Tail(requestQueue)
              /\ activeRequests' = activeRequests]_vars

\* C26 witness: a waiter got the slot of a call that ended while another
\* call still waits and the gate is full.
C26_HandedOverWhileFull ==
    /\ Len(grants) > MAX_CONCURRENT_REQUESTS
    /\ requestQueue # <<>>
    /\ activeRequests = MAX_CONCURRENT_REQUESTS

\* The exchanges saved to the memory objects 1..n, counted.
RECURSIVE SavedIn(_, _)
SavedIn(log, n) == IF n = 0 THEN 0 ELSE Len(log[n]) + SavedIn(log, n - 1)

Saved(log) == SavedIn(log, Len(log))

Responded == { r \in Requests : result[r].kind = "response" }

\* C27: as many exchanges are saved as calls returned a response, so a call
\* that threw saved none; and an exchange is saved only in the step in which
\* a call returns its response, to the memory the call holds, as the pair of
\* the call's message and that response.
C27_OnePairPerResponse ==
    /\ [](Saved(exchanges) = Cardinality(Responded))
    /\ [][Saved(exchanges') # Saved(exchanges) =>
              \E r \in Requests :
                  /\ result[r] = NoResult
                  /\ result'[r].kind = "response"
                  /\ pc'[r] = "done"
                  /\ Saved(exchanges') = Saved(exchanges) + 1
                  /\ exchanges'[memory[r]] =
                         Append(exchanges[memory[r]],
                                Exchange(userMessage[r], result'[r].text))]_vars

\* C27 witness: one call returned a response and one threw; one exchange is
\* saved.
C27_OneReturnedOneThrew ==
    /\ \E r \in Requests : pc[r] = "done" /\ result[r].kind = "response"
    /\ \E r \in Requests : pc[r] = "done" /\ result[r].kind = "error"
    /\ Saved(exchanges) = 1

\* The exchanges in the memory the Map has for session s.
Visible(log, map, s) == IF map[s] = 0 THEN <<>> ELSE log[map[s]]

Boosted(chunk, query) ==
    BaseScore(chunk) * (10 + Min(KeywordMatches(chunk, query), 5))

Reranked(chunks) == \A p \in 1..Len(chunks) : chunks[p].rerank_score # -1

\* The list holds n of the results, each with its boosted score, the highest
\* first, and no result left out has a higher boosted score than one in it.
HighestBoosted(chunks, results, query, n) ==
    /\ Len(chunks) = n
    /\ \E from \in [1..n -> 1..Len(results)] :
          /\ \A p, q \in 1..n : from[p] = from[q] => p = q
          /\ \A p \in 1..n :
                chunks[p] = [results[from[p]] EXCEPT
                                !.rerank_score = Boosted(results[from[p]], query)]
          /\ \A p \in 1..n, i \in 1..Len(results) :
                (\A q \in 1..n : from[q] # i)
                    => Boosted(results[i], query) <= chunks[p].rerank_score
    /\ \A p \in 1..n, q \in 1..n :
          p < q => chunks[p].rerank_score >= chunks[q].rerank_score

\* C22: retrieveRelevantChunks returns at most topK results; the keyword
\* boost is applied exactly when rerank is set and the engine returned more
\* than topK hits, and the list is then the topK results of highest boosted
\* score, highest first; otherwise the list is the first topK results in the
\* order of the engine and no result carries a rerank_score.
C22_BoostOnlyOverTopK ==
    (rpc = "done" /\ response.status = 200) =>
        /\ Len(response.chunks) <= options.topK
        /\ IF options.rerank /\ Len(esResults) > options.topK
           THEN HighestBoosted(response.chunks, esResults, body.query, options.topK)
           ELSE /\ response.chunks = Slice(esResults, options.topK)
                /\ ~\E p \in 1..Len(response.chunks) :
                        response.chunks[p].rerank_score # -1

\* C22 witness: three hits for topK = 2 with rerank set, and the boost put a
\* result first that the engine had not put first.
C22_BoostChangedOrder ==
    /\ rpc = "done"
    /\ response.status = 200
    /\ options.rerank
    /\ options.topK = 2
    /\ Len(esResults) = 3
    /\ Reranked(response.chunks)
    /\ response.chunks[1].chunk_id # esResults[1].chunk_id

\* C30: kbScope has no influence on retrieval: the search posted and the
\* results returned by a retrieveRelevantChunks call are those of the call
\* with any other kbScope and otherwise the same options.
C30_KbScopeIgnored ==
    \A k \in KbScopeInputs \ {""} :
        LET other == [options EXCEPT !.kbScope = k]
        IN  /\ rpc \in {"searching", "done"} /\ searchBody # NoSearch
                => searchBody = BuildSearch(EsOptions(other))
            /\ rpc = "done" /\ response.status = 200
                => response.chunks = TopChunks(esResults, body.query, other)

\* C30 witness: a call with kbScope "global" and an owner searched with the
\* owner filter and returned that owner's chunks only.
C30_GlobalScopeStillFiltered ==
    /\ rpc = "done"
    /\ response.status = 200
    /\ options.kbScope = "global"
    /\ options.ownerId = "42"
    /\ searchBody.queryFilter.owner_id = "42"
    /\ Len(esResults) < Len(IndexDocs)
    /\ Len(response.chunks) > 0

\* The calls that hold an instance of the pipeline.
WithModel == { c \in EmbedCalls : emodel[c] # 0 }

\* C21: the embedding pipeline is constructed at most once per process:
\* whatever the interleaving of the initializeEmbeddingModel and
\* generateEmbedding calls, the model-loading step runs once (a load that
\* threw aside) and every caller uses the same instance.
C21_PipelineBuiltOnce ==
    /\ eloads - efailures <= 1
    /\ \A c, d \in WithModel : emodel[c] = emodel[d]

====
